---- MODULE Spec2Model ----
(***************************************************************************)
(* Model of the executor's command runner (package command):               *)
(*   - the image reference sanitizer (sanitizeImage),                      *)
(*   - the Firecracker command formatter (formatFirecrackerCommand),       *)
(*   - the runner lifecycle Setup / Run / Teardown of the two tiers        *)
(*     (dockerRunner, firecrackerRunner).                                   *)
(*                                                                         *)
(* Go strings are modelled as sequences of one-character strings, so that  *)
(* formatting, joining, sorting and regular-expression matching are        *)
(* computed character by character.  An argv is a sequence of such         *)
(* strings.                                                                *)
(***************************************************************************)
EXTENDS Integers, Sequences, FiniteSets, TLC

VARIABLES
    \* ---- the sanitizer, as a pure function applied to a drawn input
    image,        \* the input string
    sanitized,    \* sanitizeImage(image), once computed
    resanitized,  \* sanitizeImage(sanitized), once computed
    sanStep,      \* "idle" | "input" | "once" | "twice"
    \* ---- the runners and their environment
    runner,       \* runner id -> the runner struct's fields
    fsDirs,       \* the directories that exist on the host
    fsFiles,      \* the files that exist on the host: path -> content
    nextTmp,      \* the suffix os.MkdirTemp gives its next directory
    trace,        \* what the last call did: invocations and file operations
    lastCall,     \* the last call: which runner, operation, inputs, result
    phase,        \* runner id -> lifecycle phase (history of its calls)
    calls,        \* number of calls made so far
    scope         \* which calls are made: "lifecycle" | "call" | "none"

sanVars == <<image, sanitized, resanitized, sanStep>>
runVars == <<runner, fsDirs, fsFiles, nextTmp, trace, lastCall, phase, calls, scope>>
vars == <<image, sanitized, resanitized, sanStep,
          runner, fsDirs, fsFiles, nextTmp, trace, lastCall, phase, calls, scope>>

(***************************************************************************)
(* Bounds of the model.                                                    *)
(***************************************************************************)
\* Largest number of pieces an input image reference is put together from.
MaxPieces == 6
\* Length of the digest the image pattern asks for.  The pattern asks for 64
\* characters; the model scales the count down, the matching is unchanged.
DigestLen == 2
\* Largest number of Setup/Run/Teardown calls in one behaviour.
MaxCalls == 3

(***************************************************************************)
(* Strings.                                                                *)
(***************************************************************************)
\* The printable ASCII characters in byte order, from 32 (space) to 126
\* (byte 96, the backquote, cannot be written in a TLA+ string and has a
\* stand-in that holds its place).
Ascii ==
    <<" ", "!", "\"", "#", "$", "%", "&", "'", "(", ")", "*", "+", ",", "-",
      ".", "/", "0", "1", "2", "3", "4", "5", "6", "7", "8", "9", ":", ";",
      "<", "=", ">", "?", "@", "A", "B", "C", "D", "E", "F", "G", "H", "I",
      "J", "K", "L", "M", "N", "O", "P", "Q", "R", "S", "T", "U", "V", "W",
      "X", "Y", "Z", "[", "\\", "]", "^", "_", "(backquote)", "a", "b", "c", "d", "e",
      "f", "g", "h", "i", "j", "k", "l", "m", "n", "o", "p", "q", "r", "s",
      "t", "u", "v", "w", "x", "y", "z", "{", "|", "}", "~">>

Chars == {Ascii[i] : i \in 1..Len(Ascii)}

\* The byte order of a character, as Go's string comparison uses it.
Ord(c) == CHOOSE i \in 1..Len(Ascii) : Ascii[i] = c

Digits == {"0", "1", "2", "3", "4", "5", "6", "7", "8", "9"}

LowerLetters == {Ascii[i] : i \in 66..91}

\* The one element of a one-element set.  An operator below that reads an
\* argument more than once binds it first, as in  Only({e(x) : x \in {arg}}),
\* so that the argument is evaluated once, whatever expression it is.
Only(S) == CHOOSE x \in S : TRUE

\* Whether t occurs in s at position i.
HasPrefixAt(s0, i0, t0) ==
    \E s \in {s0}, i \in {i0}, t \in {t0} :
        /\ i >= 1
        /\ i + Len(t) - 1 <= Len(s)
        /\ \A k \in 1..Len(t) : s[i + k - 1] = t[k]

\* strings.Contains
Contains(s0, t0) ==
    \E s \in {s0}, t \in {t0} : \E i \in 1..(Len(s) + 1) : HasPrefixAt(s, i, t)

\* The first position at which t occurs in s, 0 when it does not.
IndexOf(s0, t0) ==
    Only({ Only({ IF hits = {} THEN 0
                  ELSE CHOOSE i \in hits : \A j \in hits : i <= j :
                  hits \in {{i \in 1..(Len(s) + 1) : HasPrefixAt(s, i, t)}} }) :
           s \in {s0}, t \in {t0} })

\* Go's < on strings: bytewise lexicographic order.
StrLess(a0, b0) ==
    \E a \in {a0}, b \in {b0} :
        /\ a # b
        /\ \E d \in {CHOOSE i \in 1..(Len(a) + 1) :
                        /\ (i > Len(a) \/ i > Len(b) \/ a[i] # b[i])
                        /\ \A k \in 1..(i - 1) : k <= Len(b) /\ a[k] = b[k]} :
              \/ d > Len(a)
              \/ (d <= Len(b) /\ Ord(a[d]) < Ord(b[d]))

\* The concatenation of the sequences of a sequence.
RECURSIVE Concat(_)
Concat(lists0) ==
    Only({ IF lists = <<>> THEN <<>> ELSE lists[1] \o Concat(Tail(lists)) :
           lists \in {lists0} })

\* strings.Join(parts, sep)
StrJoin(parts0, sep0) ==
    Only({ Concat([k \in 1..Len(parts) |->
                      IF k = 1 THEN parts[k] ELSE sep \o parts[k]]) :
           parts \in {parts0}, sep \in {sep0} })

\* flatten: the argument lists, one after the other.
flatten(lists) == Concat(lists)

(***************************************************************************)
(* The image reference sanitizer.                                          *)
(***************************************************************************)
sha256Marker == <<"@", "s", "h", "a", "2", "5", "6", ":">>

NameChars == Chars \ {":", "@"}            \* [^:@]
TagChars == Chars \ {"@"}                  \* [^@]
DigestChars == LowerLetters \cup Digits    \* [a-z0-9]

\* The end of the longest run of characters of cls that starts at i
\* (i - 1 when s[i] is not in cls): a greedy  cls*  from position i.
RunEnd(cls, s0, i0) ==
    Only({ CHOOSE j \in (i - 1)..Len(s) :
                /\ \A k \in i..j : s[k] \in cls
                /\ (j = Len(s) \/ s[j + 1] \notin cls) :
           s \in {s0}, i \in {i0} })

\* The groups of a match of the pattern that starts at b: the name runs as
\* far as it can; the tag is taken when a ':' and a tag character follow, and
\* runs as far as it can; the digest is taken when the marker and DigestLen
\* digest characters follow.
MatchAt(s, b) ==
    Only({ Only({ Only({
        << SubSeq(s, b, IF hasDigest THEN e2 + Len(sha256Marker) + DigestLen ELSE e2),
           SubSeq(s, b, e1),
           IF e2 > e1 THEN SubSeq(s, e1 + 2, e2) ELSE <<>>,
           IF hasDigest
           THEN SubSeq(s, e2 + Len(sha256Marker) + 1,
                       e2 + Len(sha256Marker) + DigestLen)
           ELSE <<>> >> :
        hasDigest \in {/\ HasPrefixAt(s, e2 + 1, sha256Marker)
                       /\ e2 + Len(sha256Marker) + DigestLen <= Len(s)
                       /\ \A k \in 1..DigestLen :
                             s[e2 + Len(sha256Marker) + k] \in DigestChars} }) :
        e2 \in {IF /\ e1 + 2 <= Len(s)
                   /\ s[e1 + 1] = ":"
                   /\ s[e1 + 2] \in TagChars
                THEN RunEnd(TagChars, s, e1 + 2)
                ELSE e1} }) :
        e1 \in {RunEnd(NameChars, s, b)} })

\* imagePattern.FindStringSubmatch(s): the leftmost match of
\*   ([^:@]+)(?::([^@]+))?(?:@sha256:([a-z0-9]{64}))?
\* anywhere in s (the pattern is not anchored), as <<match, name, tag, digest>>
\* with "" for a group that took no part, and <<>> when nothing matches.
\* The name needs one character and everything after it is optional, so the
\* leftmost match starts at the first character that is neither ':' nor '@'.
FindStringSubmatch(s0) ==
    Only({ Only({ IF starts = {} THEN <<>>
                  ELSE MatchAt(s, CHOOSE i \in starts : \A j \in starts : i <= j) :
                  starts \in {{i \in 1..Len(s) : s[i] \in NameChars}} }) :
           s \in {s0} })

\* A slip in the group indices: the tag and the digest are read where the
\* name and the tag are.
sanitizeImage_IndexSlip(img) ==
    Only({ IF Len(matches) = 4
           THEN IF matches[4] = <<>> THEN matches[3]
                ELSE matches[3] \o <<":">> \o matches[4]
           ELSE img :
           matches \in {FindStringSubmatch(img)} })

\* The whole match is returned: the digest is not dropped.
sanitizeImage_KeepDigest(img) ==
    Only({ IF Len(matches) = 4 THEN matches[1] ELSE img :
           matches \in {FindStringSubmatch(img)} })

\* The fall-through returns nothing instead of the input.
sanitizeImage_NoFallThrough(img) ==
    Only({ IF Len(matches) = 4
           THEN IF matches[3] = <<>> THEN matches[2]
                ELSE matches[2] \o <<":">> \o matches[3]
           ELSE <<>> :
           matches \in {FindStringSubmatch(img)} })

\* sanitizeImage: name, or name:tag, of the match; the input when the
\* pattern matches nowhere.
sanitizeImage(img) ==
    Only({ IF Len(matches) = 4
           THEN IF matches[3] = <<>> THEN matches[2]
                ELSE matches[2] \o <<":">> \o matches[3]
           ELSE img :
           matches \in {FindStringSubmatch(img)} })

(***************************************************************************)
(* Errors.  nil is the empty chain; an error is the chain of its messages, *)
(* the outermost first.                                                    *)
(***************************************************************************)
Nil == <<>>

\* errors.Wrap(err, msg)
Wrap(err, msg) == IF err = Nil THEN Nil ELSE <<msg>> \o err

\* errors.Append(err, more): nil when both are, the other when one is.
errorsAppend(err, more) ==
    IF err = Nil THEN more ELSE IF more = Nil THEN err ELSE err \o more

(***************************************************************************)
(* Literal strings of the source.                                          *)
(***************************************************************************)
firecrackerContainerDir == <<"/", "w", "o", "r", "k">>
dockerDaemonConfigFilename == <<"d", "o", "c", "k", "e", "r", "-", "d", "a", "e", "m", "o", "n", ".", "j", "s", "o", "n">>
daemonJSONPath == <<"/", "e", "t", "c", "/", "d", "o", "c", "k", "e", "r", "/", "d", "a", "e", "m", "o", "n", ".", "j", "s", "o", "n">>
tmpDirPattern == <<"e", "x", "e", "c", "u", "t", "o", "r", "-", "f", "i", "r", "e", "c", "r", "a", "c", "k", "e", "r", "-", "r", "u", "n", "n", "e", "r">>
osTempDir == <<"/", "t", "m", "p">>
sIgnite == <<"i", "g", "n", "i", "t", "e">>
sRun == <<"r", "u", "n">>
sExec == <<"e", "x", "e", "c">>
sRm == <<"r", "m">>
sForce == <<"-", "f">>
sDashDash == <<"-", "-">>
sRuntime == <<"-", "-", "r", "u", "n", "t", "i", "m", "e">>
sDocker == <<"d", "o", "c", "k", "e", "r">>
sNetworkPlugin == <<"-", "-", "n", "e", "t", "w", "o", "r", "k", "-", "p", "l", "u", "g", "i", "n">>
sCni == <<"c", "n", "i">>
sCpus == <<"-", "-", "c", "p", "u", "s">>
sMemory == <<"-", "-", "m", "e", "m", "o", "r", "y">>
sSize == <<"-", "-", "s", "i", "z", "e">>
sCopyFiles == <<"-", "-", "c", "o", "p", "y", "-", "f", "i", "l", "e", "s">>
sVolumes == <<"-", "-", "v", "o", "l", "u", "m", "e", "s">>
sSsh == <<"-", "-", "s", "s", "h">>
sName == <<"-", "-", "n", "a", "m", "e">>
sKernelImage == <<"-", "-", "k", "e", "r", "n", "e", "l", "-", "i", "m", "a", "g", "e">>
sCd == <<"c", "d", " ">>
sAndAnd == <<" ", "&", "&", " ">>

(***************************************************************************)
(* Conversions.                                                            *)
(***************************************************************************)
\* strconv.Itoa
RECURSIVE Itoa(_)
Itoa(n0) ==
    Only({ IF n < 0 THEN <<"-">> \o Itoa(0 - n)
           ELSE IF n < 10 THEN <<Ascii[17 + n]>>
           ELSE Itoa(n \div 10) \o <<Ascii[17 + (n % 10)]>> :
           n \in {n0} })

\* path.Join(dir, file) of two clean paths: an empty element is dropped.
PathJoin(dir0, file0) ==
    Only({ IF file = <<>> THEN dir
           ELSE IF dir = <<>> THEN file
           ELSE dir \o <<"/">> \o file :
           dir \in {dir0}, file \in {file0} })

\* sort.Strings: ascending in Go's string order.  The place of an element is
\* one more than the number of elements that go before it: the smaller ones,
\* and the equal ones that stood before it.
SortStrings(ss0) ==
    Only({ Only({ [k \in 1..Len(ss) |-> ss[CHOOSE i \in 1..Len(ss) : place[i] = k]] :
                  place \in {[i \in 1..Len(ss) |->
                                1 + Cardinality({j \in 1..Len(ss) :
                                        \/ StrLess(ss[j], ss[i])
                                        \/ (ss[j] = ss[i] /\ j < i)})]} }) :
           ss \in {ss0} })

\* encoding/json's encoding of the characters of a string: '"' and '\' get a
\* backslash in front, '<', '>' and '&' are written as their \u escapes
\* (003c, 003e, 0026).
JsonEscape(s0) ==
    Only({ Concat([k \in 1..Len(s) |->
                CASE s[k] \in {"\"", "\\"} -> <<"\\", s[k]>>
                  [] s[k] = "<" -> <<"\\", "u", "0", "0", "3", "c">>
                  [] s[k] = ">" -> <<"\\", "u", "0", "0", "3", "e">>
                  [] s[k] = "&" -> <<"\\", "u", "0", "0", "2", "6">>
                  [] OTHER -> <<s[k]>>]) :
           s \in {s0} })

\* The field goes by its Go name, as it would without its json tag.
MarshalDaemonConfig_GoFieldName(mirrorAddress) ==
    <<"{", "\"", "R", "e", "g", "i", "s", "t", "r", "y", "M", "i", "r", "r", "o", "r", "s", "\"", ":", "[", "\"">> \o JsonEscape(mirrorAddress) \o <<"\"", "]", "}">>

\* json.Marshal(&dockerDaemonConfig{RegistryMirrors: []string{mirrorAddress}})
MarshalDaemonConfig(mirrorAddress) ==
    <<"{", "\"", "r", "e", "g", "i", "s", "t", "r", "y", "-", "m", "i", "r", "r", "o", "r", "s", "\"", ":", "[", "\"">> \o JsonEscape(mirrorAddress) \o <<"\"", "]", "}">>

(***************************************************************************)
(* Shell quoting (github.com/kballard/go-shellquote).                      *)
(***************************************************************************)
specialChars ==
    {"\\", "'", "\"", "(backquote)", "$", "{", "[", "|", "&", ";", "<", ">",
     "(", ")", "*", "?", "!"}
extraSpecialChars == {" ", "\t", "\n"}
prefixChars == {"~"}

\* Backslash mode: every special character, and a leading '~', gets a
\* backslash in front.
BackslashQuote(word0) ==
    Only({ Concat([k \in 1..Len(word) |->
                IF word[k] \in specialChars \/ (k = 1 /\ word[k] \in prefixChars)
                THEN <<"\\", word[k]>>
                ELSE <<word[k]>>]) :
           word \in {word0} })

\* Quote mode: the word in single quotes, each single quote of the word
\* written as \' outside of them.
RECURSIVE SingleQuote(_)
SingleQuote(word0) ==
    Only({ Only({
        IF word = <<>> THEN <<>>
        ELSE IF i = 0 THEN <<"'">> \o word \o <<"'">>
        ELSE (IF i > 1 THEN <<"'">> \o SubSeq(word, 1, i - 1) \o <<"'">>
              ELSE <<>>)
             \o <<"\\", "'">> \o SingleQuote(SubSeq(word, i + 1, Len(word))) :
        i \in {IndexOf(word, <<"'">>)} }) :
        word \in {word0} })

\* quote(word): '' for the empty word; quote mode when the word holds a
\* space, tab or newline; backslash mode otherwise.
ShellQuoteWord(word0) ==
    Only({ IF word = <<>> THEN <<"'", "'">>
           ELSE IF \E k \in 1..Len(word) : word[k] \in extraSpecialChars
           THEN SingleQuote(word)
           ELSE BackslashQuote(word) :
           word \in {word0} })

\* shellquote.Join(args...): the quoted words, separated by one space.
ShellJoin(args0) ==
    Only({ StrJoin([k \in 1..Len(args) |-> ShellQuoteWord(args[k])], <<" ">>) :
           args \in {args0} })

(***************************************************************************)
(* Commands, and what a call leaves in the trace.                          *)
(***************************************************************************)
\* The command struct (its Operation, an opaque tracing handle, left out).
Cmd(key, argv, dir, env) ==
    [Key |-> key, Command |-> argv, Dir |-> dir, Env |-> env]

NoCmd == Cmd("", <<>>, <<>>, <<>>)

\* One step of a call: a subprocess invocation ("exec") or a file operation,
\* with the error the step ended with.
Ev(kind, cmd, path, err) ==
    [kind |-> kind, cmd |-> cmd, path |-> path, err |-> err]

\* commandRunner.RunCommand / runCommand: the execution primitive runs the
\* command once; its result is the environment's.
RunCommand(cmd, outcome) == Ev("exec", cmd, <<>>, outcome)

(***************************************************************************)
(* The command formatter.                                                  *)
(***************************************************************************)
\* quoteEnv: every assignment shell-escaped on its own.
quoteEnv(env0) ==
    Only({ [k \in 1..Len(env) |-> ShellQuoteWord(env[k])] : env \in {env0} })

\* The -e NAME=VALUE flags of a container invocation.
dockerEnvFlags(env0) ==
    Only({ Concat([k \in 1..Len(env) |-> <<<<"-", "e">>, env[k]>>]) :
           env \in {env0} })

\* formatRawOrDockerCommand: without an image, the command tokens (or the
\* script path) run in the working directory under dir, with the environment
\* handed to the child process; with an image, a one-shot container
\* invocation that carries the environment as flags, mounts dir, sets the
\* working directory in the container and ends with the sanitized image and
\* the tokens (or the script path).
formatRawOrDockerCommand(spec0, dir0, options) ==
    Only({ Only({
        IF spec.Image = <<>>
        THEN Cmd(spec.Key, what, PathJoin(dir, spec.Dir), spec.Env)
        ELSE Cmd(spec.Key,
                 flatten(<< <<sDocker, sRun, <<"-", "-", "r", "m">>>>,
                            dockerEnvFlags(spec.Env),
                            <<<<"-", "v">>, dir \o <<":">> \o <<"/", "d", "a", "t", "a">>>>,
                            <<<<"-", "w">>, PathJoin(<<"/", "d", "a", "t", "a">>, spec.Dir)>>,
                            <<sanitizeImage(spec.Image)>>,
                            what >>),
                 <<>>, <<>>) :
        what \in {IF spec.ScriptPath # <<>> THEN <<spec.ScriptPath>>
                  ELSE spec.Command} }) :
        spec \in {spec0}, dir \in {dir0} })

\* The environment assignments are put in front of the cd clause.
InnerCommand_EnvFirst(c0) ==
    Only({ Only({ Only({
        IF Len(c.Env) > 0
        THEN StrJoin(quoteEnv(c.Env), <<" ">>) \o <<" ">> \o inner1
        ELSE inner1 :
        inner1 \in {IF c.Dir # <<>> THEN sCd \o c.Dir \o sAndAnd \o inner0
                    ELSE inner0} }) :
        inner0 \in {ShellJoin(c.Command)} }) :
        c \in {c0} })

\* The inner command: the shell-joined tokens, the quoted environment put in
\* front of them, and "cd <dir> && " put in front of that.
InnerCommand(c0) ==
    Only({ Only({ Only({
        IF c.Dir # <<>> THEN sCd \o c.Dir \o sAndAnd \o inner1 ELSE inner1 :
        inner1 \in {IF Len(c.Env) > 0
                    THEN StrJoin(quoteEnv(c.Env), <<" ">>) \o <<" ">> \o inner0
                    ELSE inner0} }) :
        inner0 \in {ShellJoin(c.Command)} }) :
        c \in {c0} })

\* The tokens of the command are passed on as arguments of their own.
formatFirecrackerCommand_TokensAsArgv(spec, name, options) ==
    Cmd(spec.Key,
        <<sIgnite, sExec, name, sDashDash>>
            \o formatRawOrDockerCommand(spec, firecrackerContainerDir, options).Command,
        <<>>, <<>>)

\* formatFirecrackerCommand: ignite exec <name> -- <inner>, the inner command
\* of the raw or docker command as one string.
formatFirecrackerCommand(spec, name, options) ==
    Cmd(spec.Key,
        <<sIgnite, sExec, name, sDashDash,
          InnerCommand(formatRawOrDockerCommand(spec, firecrackerContainerDir, options))>>,
        <<>>, <<>>)

(***************************************************************************)
(* The Firecracker virtual machine: its flags, setup and teardown.         *)
(***************************************************************************)
\* intersperse(flag, values): nothing without values; otherwise the flag and
\* the values as its one comma-separated argument.
intersperse(flag, values0) ==
    Only({ IF values = <<>> THEN <<>> ELSE <<flag, StrJoin(values, <<",">>)>> :
           values \in {values0} })

firecrackerResourceFlags(options) ==
    <<sCpus, Itoa(options.NumCPUs),
      sMemory, options.Memory,
      sSize, options.DiskSpace>>

\* The daemon config is copied to its own path, as the startup script is.
copyfiles_DaemonToOwnPath(vmStartupScriptPath, daemonConfigFile) ==
    (IF vmStartupScriptPath # <<>>
     THEN <<vmStartupScriptPath \o <<":">> \o vmStartupScriptPath>>
     ELSE <<>>)
    \o (IF daemonConfigFile # <<>>
        THEN <<daemonConfigFile \o <<":">> \o daemonConfigFile>>
        ELSE <<>>)

\* The copy-files pairs in the order they are collected: the startup script
\* to its own path, the daemon config to /etc/docker/daemon.json.
copyfiles(vmStartupScriptPath, daemonConfigFile) ==
    (IF vmStartupScriptPath # <<>>
     THEN <<vmStartupScriptPath \o <<":">> \o vmStartupScriptPath>>
     ELSE <<>>)
    \o (IF daemonConfigFile # <<>>
        THEN <<daemonConfigFile \o <<":">> \o daemonJSONPath>>
        ELSE <<>>)

\* The pairs are passed in the order they were collected.
firecrackerCopyfileFlags_Unsorted(vmStartupScriptPath, daemonConfigFile) ==
    intersperse(sCopyFiles, copyfiles(vmStartupScriptPath, daemonConfigFile))

firecrackerCopyfileFlags(vmStartupScriptPath, daemonConfigFile) ==
    intersperse(sCopyFiles,
                SortStrings(copyfiles(vmStartupScriptPath, daemonConfigFile)))

firecrackerVolumeFlags(workspaceDevice, containerDir) ==
    <<sVolumes, workspaceDevice \o <<":">> \o containerDir>>

\* The volume flag comes before the copy-files flags.
startCommand_VolumesFirst(name, workspaceDevice, daemonConfigFile, options) ==
    Cmd("setup.firecracker.start",
        flatten(<< <<sIgnite, sRun>>,
                   <<sRuntime, sDocker>>,
                   <<sNetworkPlugin, sCni>>,
                   firecrackerResourceFlags(options.ResourceOptions),
                   firecrackerVolumeFlags(workspaceDevice, firecrackerContainerDir),
                   firecrackerCopyfileFlags(options.FirecrackerOptions.VMStartupScriptPath,
                                            daemonConfigFile),
                   <<sSsh>>,
                   <<sName, name>>,
                   <<sKernelImage, sanitizeImage(options.FirecrackerOptions.KernelImage)>>,
                   <<sanitizeImage(options.FirecrackerOptions.Image)>> >>),
        <<>>, <<>>)

\* The kernel image is passed as it is configured; only the base image is
\* sanitized.
startCommand_KernelAsGiven(name, workspaceDevice, daemonConfigFile, options) ==
    Cmd("setup.firecracker.start",
        flatten(<< <<sIgnite, sRun>>,
                   <<sRuntime, sDocker>>,
                   <<sNetworkPlugin, sCni>>,
                   firecrackerResourceFlags(options.ResourceOptions),
                   firecrackerCopyfileFlags(options.FirecrackerOptions.VMStartupScriptPath,
                                            daemonConfigFile),
                   firecrackerVolumeFlags(workspaceDevice, firecrackerContainerDir),
                   <<sSsh>>,
                   <<sName, name>>,
                   <<sKernelImage, options.FirecrackerOptions.KernelImage>>,
                   <<sanitizeImage(options.FirecrackerOptions.Image)>> >>),
        <<>>, <<>>)

\* The start command of setupFirecracker.
startCommand(name, workspaceDevice, daemonConfigFile, options) ==
    Cmd("setup.firecracker.start",
        flatten(<< <<sIgnite, sRun>>,
                   <<sRuntime, sDocker>>,
                   <<sNetworkPlugin, sCni>>,
                   firecrackerResourceFlags(options.ResourceOptions),
                   firecrackerCopyfileFlags(options.FirecrackerOptions.VMStartupScriptPath,
                                            daemonConfigFile),
                   firecrackerVolumeFlags(workspaceDevice, firecrackerContainerDir),
                   <<sSsh>>,
                   <<sName, name>>,
                   <<sKernelImage, sanitizeImage(options.FirecrackerOptions.KernelImage)>>,
                   <<sanitizeImage(options.FirecrackerOptions.Image)>> >>),
        <<>>, <<>>)

\* The startup script command of setupFirecracker.
startupScriptCommand(name, options) ==
    Cmd("setup.startup-script",
        <<sIgnite, sExec, name, sDashDash,
          options.FirecrackerOptions.VMStartupScriptPath>>,
        <<>>, <<>>)

\* The remove command of teardownFirecracker.
removeCommand(name) ==
    Cmd("teardown.firecracker.remove", <<sIgnite, sRm, sForce, name>>, <<>>, <<>>)

\* The files with the file at path holding content.
WriteFileTo(files, path, content) ==
    {f \in files : f[1] # path} \cup {<<path, content>>}

\* The error of the write is dropped: only the close error is returned.
newDockerDaemonConfig_DropsWriteError(tmpDir, mirrorAddress, files, oc) ==
    Only({
        IF oc.create # Nil
        THEN [file  |-> <<>>,
              err   |-> Wrap(oc.create, "creating temp file for docker daemon config"),
              files |-> files,
              trace |-> <<Ev("create", NoCmd, file, oc.create)>>]
        ELSE [file  |-> file,
              err   |-> errorsAppend(Nil, oc.close),
              files |-> IF oc.write = Nil
                        THEN WriteFileTo(files, file, MarshalDaemonConfig(mirrorAddress))
                        ELSE WriteFileTo(files, file, <<>>),
              trace |-> <<Ev("create", NoCmd, file, Nil),
                          Ev("write", NoCmd, file, oc.write),
                          Ev("close", NoCmd, file, oc.close)>>] :
        file \in {PathJoin(tmpDir, dockerDaemonConfigFilename)} })

\* newDockerDaemonConfig: create the file in tmpDir, marshal the config, write
\* it, and close the file on the way out (the close error is appended to the
\* error returned).  json.Marshal of a list of one string does not fail.
\* oc gives the outcome of each file operation.
newDockerDaemonConfig(tmpDir, mirrorAddress, files, oc) ==
    Only({
        IF oc.create # Nil
        THEN [file  |-> <<>>,
              err   |-> Wrap(oc.create, "creating temp file for docker daemon config"),
              files |-> files,
              trace |-> <<Ev("create", NoCmd, file, oc.create)>>]
        ELSE [file  |-> file,
              err   |-> errorsAppend(oc.write, oc.close),
              files |-> IF oc.write = Nil
                        THEN WriteFileTo(files, file, MarshalDaemonConfig(mirrorAddress))
                        ELSE WriteFileTo(files, file, <<>>),
              trace |-> <<Ev("create", NoCmd, file, Nil),
                          Ev("write", NoCmd, file, oc.write),
                          Ev("close", NoCmd, file, oc.close)>>] :
        file \in {PathJoin(tmpDir, dockerDaemonConfigFilename)} })

\* The error of the start command is returned as it is, without the message
\* of the step.
setupFirecracker_StartErrorUnwrapped(name, workspaceDevice, tmpDir, options, files, oc) ==
    Only({ Only({
        IF dc.err # Nil
        THEN [err |-> dc.err, files |-> dc.files, trace |-> dc.trace]
        ELSE IF oc.start # Nil
        THEN [err   |-> oc.start,
              files |-> dc.files,
              trace |-> dc.trace \o <<start>>]
        ELSE IF options.FirecrackerOptions.VMStartupScriptPath # <<>>
        THEN [err   |-> Wrap(oc.script, "failed to run startup script"),
              files |-> dc.files,
              trace |-> dc.trace \o
                        <<start,
                          RunCommand(startupScriptCommand(name, options), oc.script)>>]
        ELSE [err |-> Nil, files |-> dc.files, trace |-> dc.trace \o <<start>>] :
        start \in {RunCommand(startCommand(name, workspaceDevice, dc.file, options),
                              oc.start)} }) :
        dc \in {IF options.FirecrackerOptions.DockerRegistryMirrorAddress # <<>>
                THEN newDockerDaemonConfig(tmpDir,
                        options.FirecrackerOptions.DockerRegistryMirrorAddress,
                        files, oc)
                ELSE [file |-> <<>>, err |-> Nil, files |-> files, trace |-> <<>>]} })

\* The startup script is run whether or not the start command succeeded.
setupFirecracker_ScriptAfterFailedStart(name, workspaceDevice, tmpDir, options, files, oc) ==
    Only({ Only({
        IF dc.err # Nil
        THEN [err |-> dc.err, files |-> dc.files, trace |-> dc.trace]
        ELSE IF options.FirecrackerOptions.VMStartupScriptPath # <<>>
        THEN [err   |-> IF oc.start # Nil
                        THEN Wrap(oc.start, "failed to start firecracker vm")
                        ELSE Wrap(oc.script, "failed to run startup script"),
              files |-> dc.files,
              trace |-> dc.trace \o
                        <<start,
                          RunCommand(startupScriptCommand(name, options), oc.script)>>]
        ELSE [err   |-> Wrap(oc.start, "failed to start firecracker vm"),
              files |-> dc.files,
              trace |-> dc.trace \o <<start>>] :
        start \in {RunCommand(startCommand(name, workspaceDevice, dc.file, options),
                              oc.start)} }) :
        dc \in {IF options.FirecrackerOptions.DockerRegistryMirrorAddress # <<>>
                THEN newDockerDaemonConfig(tmpDir,
                        options.FirecrackerOptions.DockerRegistryMirrorAddress,
                        files, oc)
                ELSE [file |-> <<>>, err |-> Nil, files |-> files, trace |-> <<>>]} })

\* setupFirecracker: the daemon config when a mirror is configured, then the
\* start command, then the startup script when one is configured; the first
\* failure ends it.
setupFirecracker(name, workspaceDevice, tmpDir, options, files, oc) ==
    Only({ Only({
        IF dc.err # Nil
        THEN [err |-> dc.err, files |-> dc.files, trace |-> dc.trace]
        ELSE IF oc.start # Nil
        THEN [err   |-> Wrap(oc.start, "failed to start firecracker vm"),
              files |-> dc.files,
              trace |-> dc.trace \o <<start>>]
        ELSE IF options.FirecrackerOptions.VMStartupScriptPath # <<>>
        THEN [err   |-> Wrap(oc.script, "failed to run startup script"),
              files |-> dc.files,
              trace |-> dc.trace \o
                        <<start,
                          RunCommand(startupScriptCommand(name, options), oc.script)>>]
        ELSE [err |-> Nil, files |-> dc.files, trace |-> dc.trace \o <<start>>] :
        start \in {RunCommand(startCommand(name, workspaceDevice, dc.file, options),
                              oc.start)} }) :
        dc \in {IF options.FirecrackerOptions.DockerRegistryMirrorAddress # <<>>
                THEN newDockerDaemonConfig(tmpDir,
                        options.FirecrackerOptions.DockerRegistryMirrorAddress,
                        files, oc)
                ELSE [file |-> <<>>, err |-> Nil, files |-> files, trace |-> <<>>]} })

\* Whether path p is dir or lies under it.
Under(p, dir) == p = dir \/ HasPrefixAt(p, 1, dir \o <<"/">>)

\* The directories and files left when os.RemoveAll(tmpDir) ends with err:
\* the directory and what is under it are gone when it succeeds;
\* os.RemoveAll("") does nothing.
RemoveAll(tmpDir, dirs, files, err) ==
    IF err = Nil /\ tmpDir # <<>>
    THEN [dirs  |-> {d \in dirs : ~Under(d, tmpDir)},
          files |-> {f \in files : ~Under(f[1], tmpDir)}]
    ELSE [dirs |-> dirs, files |-> files]

\* The error of the remove command is returned.
teardownFirecracker_ReturnsRmError(name, tmpDir, dirs, files, oc) ==
    Only({ [err   |-> oc.rm,
            dirs  |-> left.dirs,
            files |-> left.files,
            trace |-> <<RunCommand(removeCommand(name), oc.rm),
                        Ev("removeall", NoCmd, tmpDir, oc.removeAll)>>] :
           left \in {RemoveAll(tmpDir, dirs, files, oc.removeAll)} })

\* The directory is left alone when the remove command fails.
teardownFirecracker_StopsAtRmError(name, tmpDir, dirs, files, oc) ==
    IF oc.rm # Nil
    THEN [err   |-> Nil,
          dirs  |-> dirs,
          files |-> files,
          trace |-> <<RunCommand(removeCommand(name), oc.rm)>>]
    ELSE Only({ [err   |-> Nil,
                 dirs  |-> left.dirs,
                 files |-> left.files,
                 trace |-> <<RunCommand(removeCommand(name), oc.rm),
                             Ev("removeall", NoCmd, tmpDir, oc.removeAll)>>] :
                left \in {RemoveAll(tmpDir, dirs, files, oc.removeAll)} })

\* Only the daemon config file is deleted; the temp directory is left.
teardownFirecracker_RemovesConfigOnly(name, tmpDir, dirs, files, oc) ==
    Only({ [err   |-> Nil,
            dirs  |-> left.dirs,
            files |-> left.files,
            trace |-> <<RunCommand(removeCommand(name), oc.rm),
                        Ev("removeall", NoCmd,
                           PathJoin(tmpDir, dockerDaemonConfigFilename),
                           oc.removeAll)>>] :
           left \in {RemoveAll(PathJoin(tmpDir, dockerDaemonConfigFilename),
                               dirs, files, oc.removeAll)} })

\* teardownFirecracker: the remove command, then os.RemoveAll(tmpDir); both
\* errors are logged and nil is returned.
teardownFirecracker(name, tmpDir, dirs, files, oc) ==
    Only({ [err   |-> Nil,
            dirs  |-> left.dirs,
            files |-> left.files,
            trace |-> <<RunCommand(removeCommand(name), oc.rm),
                        Ev("removeall", NoCmd, tmpDir, oc.removeAll)>>] :
           left \in {RemoveAll(tmpDir, dirs, files, oc.removeAll)} })

(***************************************************************************)
(* The runners.                                                            *)
(***************************************************************************)
\* NewRunner: the bare (docker) runner unless Firecracker is enabled.
NewRunner(dir, options) ==
    IF ~options.FirecrackerOptions.Enabled
    THEN [kind |-> "docker", name |-> <<>>, workspaceDevice |-> <<>>,
          dir |-> dir, options |-> options, tmpDir |-> <<>>]
    ELSE [kind |-> "firecracker", name |-> options.ExecutorName,
          workspaceDevice |-> dir, dir |-> <<>>, options |-> options,
          tmpDir |-> <<>>]

\* The temp directory is named by the pattern alone, without a suffix of its
\* own.
MkdirTempName_NoSuffix(n) == PathJoin(osTempDir, tmpDirPattern)

\* os.MkdirTemp("", "executor-firecracker-runner"): a fresh directory under
\* the system's temp directory, its name the pattern and a suffix of its own.
MkdirTempName(n) == PathJoin(osTempDir, tmpDirPattern \o Itoa(n))

\* A Setup first deletes the temp directory of an earlier Setup, then makes
\* its own.
firecrackerRunnerSetup_DeletesEarlierDir(rn, dirs, files, n, oc) ==
    IF oc.mkdir # Nil
    THEN [err    |-> Wrap(oc.mkdir, "failed to create tmp dir for firecracker runner"),
          tmpDir |-> rn.tmpDir,
          dirs   |-> dirs,
          files  |-> files,
          next   |-> n,
          trace  |-> <<Ev("mkdirtemp", NoCmd, <<>>, oc.mkdir)>>]
    ELSE Only({ Only({ Only({
             [err    |-> s.err,
              tmpDir |-> dir,
              dirs   |-> left.dirs \cup {dir},
              files  |-> s.files,
              next   |-> n + 1,
              trace  |-> <<Ev("mkdirtemp", NoCmd, dir, Nil)>> \o s.trace] :
             s \in {setupFirecracker(rn.name, rn.workspaceDevice, dir,
                                     rn.options, left.files, oc)} }) :
             left \in {RemoveAll(rn.tmpDir, dirs, files, Nil)} }) :
             dir \in {MkdirTempName(n)} })

\* firecrackerRunner.Setup: make the temp directory, keep it in r.tmpDir, and
\* set the virtual machine up.
firecrackerRunnerSetup(rn, dirs, files, n, oc) ==
    IF oc.mkdir # Nil
    THEN [err    |-> Wrap(oc.mkdir, "failed to create tmp dir for firecracker runner"),
          tmpDir |-> rn.tmpDir,
          dirs   |-> dirs,
          files  |-> files,
          next   |-> n,
          trace  |-> <<Ev("mkdirtemp", NoCmd, <<>>, oc.mkdir)>>]
    ELSE Only({ Only({
             [err    |-> s.err,
              tmpDir |-> dir,
              dirs   |-> dirs \cup {dir},
              files  |-> s.files,
              next   |-> n + 1,
              trace  |-> <<Ev("mkdirtemp", NoCmd, dir, Nil)>> \o s.trace] :
             s \in {setupFirecracker(rn.name, rn.workspaceDevice, dir,
                                     rn.options, files, oc)} }) :
             dir \in {MkdirTempName(n)} })

\* firecrackerRunner.Teardown
firecrackerRunnerTeardown(rn, dirs, files, oc) ==
    teardownFirecracker(rn.name, rn.tmpDir, dirs, files, oc)

\* A Run on a runner that holds no temp directory is rejected before any
\* invocation.
firecrackerRunnerRun_RejectsWithoutTmpDir(rn, spec, outcome) ==
    IF rn.tmpDir = <<>>
    THEN [err |-> <<"runner is not set up">>, trace |-> <<>>]
    ELSE Only({ [err |-> ev.err, trace |-> <<ev>>] :
                ev \in {RunCommand(formatFirecrackerCommand(spec, rn.name, rn.options),
                                   outcome)} })

\* A failed invocation is made a second time.
firecrackerRunnerRun_RetriesOnFailure(rn, spec, outcome) ==
    Only({ [err   |-> ev.err,
            trace |-> IF ev.err = Nil THEN <<ev>> ELSE <<ev, ev>>] :
           ev \in {RunCommand(formatFirecrackerCommand(spec, rn.name, rn.options),
                              outcome)} })

\* firecrackerRunner.Run: format, run, and return the result as it is.
firecrackerRunnerRun(rn, spec, outcome) ==
    Only({ [err |-> ev.err, trace |-> <<ev>>] :
           ev \in {RunCommand(formatFirecrackerCommand(spec, rn.name, rn.options),
                              outcome)} })

\* The command is formatted for the directory in the virtual machine instead
\* of the runner's.
dockerRunnerRun_ContainerDir(rn, spec, outcome) ==
    Only({ [err |-> ev.err, trace |-> <<ev>>] :
           ev \in {RunCommand(formatRawOrDockerCommand(spec, firecrackerContainerDir,
                                                       rn.options),
                              outcome)} })

\* The error of the invocation is wrapped before it is returned.
dockerRunnerRun_WrapsError(rn, spec, outcome) ==
    Only({ [err |-> Wrap(ev.err, "failed to run command"), trace |-> <<ev>>] :
           ev \in {RunCommand(formatRawOrDockerCommand(spec, rn.dir, rn.options),
                              outcome)} })

\* dockerRunner.Run: format, run, and return the result as it is.
dockerRunnerRun(rn, spec, outcome) ==
    Only({ [err |-> ev.err, trace |-> <<ev>>] :
           ev \in {RunCommand(formatRawOrDockerCommand(spec, rn.dir, rn.options),
                              outcome)} })

(***************************************************************************)
(* Inputs: options, command specs and the outcomes of the environment.     *)
(***************************************************************************)
Opt(executorName, enabled, img, kernelImage, script, mirror, cpus) ==
    [ExecutorName |-> executorName,
     FirecrackerOptions |->
        [Enabled |-> enabled, Image |-> img, KernelImage |-> kernelImage,
         VMStartupScriptPath |-> script,
         DockerRegistryMirrorAddress |-> mirror],
     ResourceOptions |->
        [NumCPUs |-> cpus, Memory |-> <<"1", "G">>, DiskSpace |-> <<"2", "0", "G">>,
         DockerHostMountPath |-> <<>>]]

CommandSpec(img, scriptPath, command, dir, env) ==
    [Key |-> "step", Image |-> img, ScriptPath |-> scriptPath,
     Command |-> command, Dir |-> dir, Env |-> env]

NoSpec == CommandSpec(<<>>, <<>>, <<>>, <<>>, <<>>)

\* A digest as the image pattern asks for it.
SomeDigest == sha256Marker \o [k \in 1..DigestLen |-> "0"]

\* Startup scripts that sort before and after the temp directory.
ScriptPaths == {<<>>, <<"/", "a", "/", "u", "p", ".", "s", "h">>, <<"/", "v", "/", "u", "p", ".", "s", "h">>}
MirrorAddresses == {<<>>, <<"h", "t", "t", "p", ":", "/", "/", "m">>}
VMImages == {<<"i", "m", "g">>, <<"i", "m", "g", ":", "t", "a", "g">> \o SomeDigest}
KernelImages == {<<"k", "r", "n", ":", "5">>, <<"k", "r", "n">> \o SomeDigest}
CPUCounts == {4, 12}
vmName == <<"v", "m", "1">>
workspaceDir == <<"/", "w", "s">>

\* Every combination of the options.
WideOptions ==
    {Opt(vmName, en, im, ki, sc, mi, cp) :
        en \in BOOLEAN, im \in VMImages, ki \in KernelImages,
        sc \in ScriptPaths, mi \in MirrorAddresses, cp \in CPUCounts}

\* The options the lifecycle is followed with.
LifecycleOptions ==
    {Opt(vmName, TRUE, <<"i", "m", "g", ":", "t", "a", "g">> \o SomeDigest, <<"k", "r", "n", ":", "5">>, <<"/", "v", "/", "u", "p", ".", "s", "h">>, <<"h", "t", "t", "p", ":", "/", "/", "m">>, 4),
     Opt(vmName, TRUE, <<"i", "m", "g">>, <<"k", "r", "n", ":", "5">>, <<>>, <<>>, 4),
     Opt(vmName, FALSE, <<"i", "m", "g">>, <<"k", "r", "n", ":", "5">>, <<>>, <<>>, 4)}

Commands == {<<<<"e", "c", "h", "o">>, <<"h", "i">>>>, <<<<"l", "s">>, <<"a", " ", "b">>>>, <<<<"s", "h">>, <<"x", ";", "y">>>>}
\* Working directories: none, a plain one, and one that holds a shell
\* metacharacter.
Dirs == {<<>>, <<"s", "u", "b">>, <<"d", ";", "x">>}
Envs == {<<>>, <<<<"A", "=", "b">>>>, <<<<"A", "=", "b", " ", "c">>, <<"D", "=", "$", "1">>>>}

WideSpecs ==
    {CommandSpec(<<>>, <<>>, c, d, e) : c \in Commands, d \in Dirs, e \in Envs}
    \cup {CommandSpec(<<"c", "/", "i">> \o SomeDigest, sp, c, d, e) :
            sp \in {<<>>, <<"s", ".", "s", "h">>}, c \in {<<<<"e", "c", "h", "o">>, <<"h", "i">>>>},
            d \in Dirs, e \in {<<>>, <<<<"A", "=", "b", " ", "c">>, <<"D", "=", "$", "1">>>>}}

LifecycleSpecs ==
    {CommandSpec(<<>>, <<>>, <<<<"e", "c", "h", "o">>, <<"h", "i">>>>, <<>>, <<>>),
     CommandSpec(<<>>, <<>>, <<<<"l", "s">>, <<"a", " ", "b">>>>, <<"s", "u", "b">>, <<<<"A", "=", "b", " ", "c">>, <<"D", "=", "$", "1">>>>)}

\* The outcome of a step: nil, or the step's error.
Outcomes(msg) == {Nil, <<msg>>}

\* ctx.Err() of a cancelled context.
Canceled == <<"context canceled">>

\* The context a call is given: still live when the call is made, or
\* already cancelled.
Contexts == {"live", "done"}

\* The outcome of an invocation made under ctx (runCommand): with a context
\* that is already cancelled the invocation is aborted and its result is the
\* cancellation; with a live context it is nil, the invocation's own error,
\* or the cancellation when the context is cancelled while it runs.
ExecOutcomes(ctx, msg) ==
    IF ctx = "done" THEN {Canceled} ELSE Outcomes(msg) \cup {Canceled}

\* The outcomes of the steps of a Setup under the options: the invocations
\* take the context, the file operations do not.  A step that is not reached
\* (there is no mirror or no script, or an earlier step failed) has no
\* outcome of its own: it stands as nil.
SetupOutcomes(ctx, options) ==
    LET mirror == options.FirecrackerOptions.DockerRegistryMirrorAddress # <<>>
        script == options.FirecrackerOptions.VMStartupScriptPath # <<>>
    IN  {oc \in [mkdir  : Outcomes("mkdir failed"),
                 create : Outcomes("create failed"),
                 write  : Outcomes("write failed"),
                 close  : Outcomes("close failed"),
                 start  : Outcomes("exit status 1") \cup {Canceled},
                 script : Outcomes("exit status 2") \cup {Canceled}] :
            /\ (oc.mkdir # Nil \/ ~mirror) => oc.create = Nil
            /\ (oc.mkdir # Nil \/ ~mirror \/ oc.create # Nil)
                  => (oc.write = Nil /\ oc.close = Nil)
            /\ IF oc.mkdir # Nil \/ oc.create # Nil \/ oc.write # Nil \/ oc.close # Nil
               THEN oc.start = Nil /\ oc.script = Nil
               ELSE /\ oc.start \in ExecOutcomes(ctx, "exit status 1")
                    /\ IF oc.start # Nil \/ ~script
                       THEN oc.script = Nil
                       ELSE oc.script \in ExecOutcomes(ctx, "exit status 2")}

TeardownOutcomes(ctx) ==
    [rm : ExecOutcomes(ctx, "exit status 1"), removeAll : Outcomes("remove failed")]

RunOutcomes(ctx) == ExecOutcomes(ctx, "exit status 1")

(***************************************************************************)
(* The calls.                                                              *)
(***************************************************************************)
\* A caller may make a call: up to MaxCalls of them when the lifecycle is
\* followed, one on the fresh runner when single calls are examined.
\* The names the runners of a behaviour go by.
RunnerIds == {1, 2}

CanCall ==
    IF scope \in {"lifecycle", "two"} THEN calls < MaxCalls
    ELSE scope = "call" /\ calls = 0

SpecsToRun == IF scope = "call" THEN WideSpecs ELSE LifecycleSpecs

Called(r, ctx, op, spec, err) ==
    [runner |-> r, ctx |-> ctx, op |-> op, spec |-> spec, err |-> err,
     before |-> phase[r]]

\* Setup on the bare tier makes a temp directory as the Firecracker tier
\* does.
dockerRunner_Setup_MakesTmpDir(r) ==
    /\ CanCall
    /\ r \in DOMAIN runner
    /\ runner[r].kind = "docker"
    /\ runner' = [runner EXCEPT ![r].tmpDir = MkdirTempName(nextTmp)]
    /\ fsDirs' = fsDirs \cup {MkdirTempName(nextTmp)}
    /\ nextTmp' = nextTmp + 1
    /\ trace' = <<Ev("mkdirtemp", NoCmd, MkdirTempName(nextTmp), Nil)>>
    /\ \E ctx \in Contexts : lastCall' = Called(r, ctx, "Setup", NoSpec, Nil)
    /\ phase' = [phase EXCEPT ![r] = "ready"]
    /\ calls' = calls + 1
    /\ UNCHANGED <<fsFiles, scope>>
    /\ UNCHANGED sanVars

dockerRunner_Setup(r) ==
    /\ CanCall
    /\ r \in DOMAIN runner
    /\ runner[r].kind = "docker"
    /\ trace' = <<>>
    /\ \E ctx \in Contexts : lastCall' = Called(r, ctx, "Setup", NoSpec, Nil)
    /\ phase' = [phase EXCEPT ![r] = "ready"]
    /\ calls' = calls + 1
    /\ UNCHANGED <<runner, fsDirs, fsFiles, nextTmp, scope>>
    /\ UNCHANGED sanVars

dockerRunner_Teardown(r) ==
    /\ CanCall
    /\ r \in DOMAIN runner
    /\ runner[r].kind = "docker"
    /\ trace' = <<>>
    /\ \E ctx \in Contexts : lastCall' = Called(r, ctx, "Teardown", NoSpec, Nil)
    /\ phase' = [phase EXCEPT ![r] = "torndown"]
    /\ calls' = calls + 1
    /\ UNCHANGED <<runner, fsDirs, fsFiles, nextTmp, scope>>
    /\ UNCHANGED sanVars

dockerRunner_Run(r) ==
    /\ CanCall
    /\ r \in DOMAIN runner
    /\ runner[r].kind = "docker"
    /\ \E ctx \in Contexts, spec \in SpecsToRun :
       \E outcome \in RunOutcomes(ctx) :
          \E res \in {dockerRunnerRun(runner[r], spec, outcome)} :
              /\ trace' = res.trace
              /\ lastCall' = Called(r, ctx, "Run", spec, res.err)
    /\ calls' = calls + 1
    /\ UNCHANGED <<runner, fsDirs, fsFiles, nextTmp, phase, scope>>
    /\ UNCHANGED sanVars

firecrackerRunner_Setup(r) ==
    /\ CanCall
    /\ r \in DOMAIN runner
    /\ runner[r].kind = "firecracker"
    /\ \E ctx \in Contexts :
       \E oc \in SetupOutcomes(ctx, runner[r].options) :
          \E res \in {firecrackerRunnerSetup(runner[r], fsDirs, fsFiles, nextTmp, oc)} :
              /\ runner' = [runner EXCEPT ![r].tmpDir = res.tmpDir]
              /\ fsDirs' = res.dirs
              /\ fsFiles' = res.files
              /\ nextTmp' = res.next
              /\ trace' = res.trace
              /\ lastCall' = Called(r, ctx, "Setup", NoSpec, res.err)
              /\ phase' = [phase EXCEPT ![r] =
                              IF res.err = Nil THEN "ready" ELSE "failed"]
    /\ calls' = calls + 1
    /\ UNCHANGED scope
    /\ UNCHANGED sanVars

\* Teardown forgets the temp directory once it has deleted it.
firecrackerRunner_Teardown_ClearsTmpDir(r) ==
    /\ CanCall
    /\ r \in DOMAIN runner
    /\ runner[r].kind = "firecracker"
    /\ \E ctx \in Contexts :
       \E oc \in TeardownOutcomes(ctx) :
          \E res \in {firecrackerRunnerTeardown(runner[r], fsDirs, fsFiles, oc)} :
              /\ fsDirs' = res.dirs
              /\ fsFiles' = res.files
              /\ trace' = res.trace
              /\ lastCall' = Called(r, ctx, "Teardown", NoSpec, res.err)
    /\ runner' = [runner EXCEPT ![r].tmpDir = <<>>]
    /\ phase' = [phase EXCEPT ![r] = "torndown"]
    /\ calls' = calls + 1
    /\ UNCHANGED <<nextTmp, scope>>
    /\ UNCHANGED sanVars

firecrackerRunner_Teardown(r) ==
    /\ CanCall
    /\ r \in DOMAIN runner
    /\ runner[r].kind = "firecracker"
    /\ \E ctx \in Contexts :
       \E oc \in TeardownOutcomes(ctx) :
          \E res \in {firecrackerRunnerTeardown(runner[r], fsDirs, fsFiles, oc)} :
              /\ fsDirs' = res.dirs
              /\ fsFiles' = res.files
              /\ trace' = res.trace
              /\ lastCall' = Called(r, ctx, "Teardown", NoSpec, res.err)
    /\ phase' = [phase EXCEPT ![r] = "torndown"]
    /\ calls' = calls + 1
    /\ UNCHANGED <<runner, nextTmp, scope>>
    /\ UNCHANGED sanVars

firecrackerRunner_Run(r) ==
    /\ CanCall
    /\ r \in DOMAIN runner
    /\ runner[r].kind = "firecracker"
    /\ \E ctx \in Contexts, spec \in SpecsToRun :
       \E outcome \in RunOutcomes(ctx) :
          \E res \in {firecrackerRunnerRun(runner[r], spec, outcome)} :
              /\ trace' = res.trace
              /\ lastCall' = Called(r, ctx, "Run", spec, res.err)
    /\ calls' = calls + 1
    /\ UNCHANGED <<runner, fsDirs, fsFiles, nextTmp, phase, scope>>
    /\ UNCHANGED sanVars

Next ==
    \/ \E r \in RunnerIds : dockerRunner_Setup(r)
    \/ \E r \in RunnerIds : dockerRunner_Run(r)
    \/ \E r \in RunnerIds : dockerRunner_Teardown(r)
    \/ \E r \in RunnerIds : firecrackerRunner_Setup(r)
    \/ \E r \in RunnerIds : firecrackerRunner_Run(r)
    \/ \E r \in RunnerIds : firecrackerRunner_Teardown(r)

NoCall ==
    [runner |-> 0, ctx |-> "live", op |-> "none", spec |-> NoSpec, err |-> Nil,
     before |-> "none"]

SanIdle ==
    /\ image = <<>>
    /\ sanitized = <<>>
    /\ resanitized = <<>>
    /\ sanStep = "idle"

\* One runner, constructed by NewRunner from the given options.
Constructed(optionSet) ==
    /\ \E options \in optionSet : runner = <<NewRunner(workspaceDir, options)>>
    /\ fsDirs = {osTempDir}
    /\ fsFiles = {}
    /\ nextTmp = 1
    /\ trace = <<>>
    /\ lastCall = NoCall
    /\ phase = <<"uninit">>
    /\ calls = 0

\* The lifecycle of one runner: any Setup/Run/Teardown calls, in any order.
Init == SanIdle /\ scope = "lifecycle" /\ Constructed(LifecycleOptions)

Spec == Init /\ [][Next]_vars

\* One call on a freshly constructed runner, for every combination of the
\* options and every command spec.
InitCall == SanIdle /\ scope = "call" /\ Constructed(WideOptions)

SpecCall == InitCall /\ [][Next]_vars

\* Two Firecracker runners with executor names of their own, each made by
\* NewRunner and driven by a caller of its own: their calls interleave in any
\* order.
vmName2 == <<"v", "m", "2">>
workspaceDir2 == <<"/", "w", "s", "2">>

TwoRunnerOptions(name) ==
    Opt(name, TRUE, <<"i", "m", "g">>, <<"k", "r", "n", ":", "5">>,
        <<"/", "v", "/", "u", "p", ".", "s", "h">>,
        <<"h", "t", "t", "p", ":", "/", "/", "m">>, 4)

InitTwo ==
    /\ SanIdle
    /\ scope = "two"
    /\ runner = <<NewRunner(workspaceDir, TwoRunnerOptions(vmName)),
                  NewRunner(workspaceDir2, TwoRunnerOptions(vmName2))>>
    /\ fsDirs = {osTempDir}
    /\ fsFiles = {}
    /\ nextTmp = 1
    /\ trace = <<>>
    /\ lastCall = NoCall
    /\ phase = <<"uninit", "uninit">>
    /\ calls = 0

NextFirecracker ==
    \/ \E r \in RunnerIds : firecrackerRunner_Setup(r)
    \/ \E r \in RunnerIds : firecrackerRunner_Run(r)
    \/ \E r \in RunnerIds : firecrackerRunner_Teardown(r)

SpecTwo == InitTwo /\ [][NextFirecracker]_vars

(***************************************************************************)
(* The sanitizer applied to drawn inputs.                                  *)
(***************************************************************************)
\* What the inputs are put together from: a character of a name that may
\* also stand in a digest, one that may not, the two separators, and the
\* marker of a digest.
Pieces == {<<"r">>, <<"/">>, <<":">>, <<"@">>, sha256Marker}

RECURSIVE Concats(_)
Concats(n) ==
    IF n = 0 THEN {<<>>}
    ELSE LET shorter == Concats(n - 1)
         IN  shorter \cup {x \o p : x \in shorter, p \in Pieces}

\* The references of the sanitizer's documented examples, the digest of the
\* length the pattern asks for.
ExampleDigest == sha256Marker \o [k \in 1..DigestLen |-> "0"]
ExampleImages ==
    {<<"r", "e", "p", "o", "/", "i", "m", "g", ":", "t", "a", "g">> \o ExampleDigest, <<"r", "e", "p", "o", "/", "i", "m", "g">> \o ExampleDigest, <<"r", "e", "p", "o", "/", "i", "m", "g", ":", "t", "a", "g">>}

Images == Concats(MaxPieces) \cup ExampleImages

Sanitize ==
    /\ sanStep = "input"
    /\ sanitized' = sanitizeImage(image)
    /\ sanStep' = "once"
    /\ UNCHANGED <<image, resanitized>>
    /\ UNCHANGED runVars

Resanitize ==
    /\ sanStep = "once"
    /\ resanitized' = sanitizeImage(sanitized)
    /\ sanStep' = "twice"
    /\ UNCHANGED <<image, sanitized>>
    /\ UNCHANGED runVars

SanNext == Sanitize \/ Resanitize

SanInit ==
    /\ image \in Images
    /\ sanitized = <<>>
    /\ resanitized = <<>>
    /\ sanStep = "input"
    /\ scope = "none"
    /\ runner = <<>>
    /\ fsDirs = {}
    /\ fsFiles = {}
    /\ nextTmp = 1
    /\ trace = <<>>
    /\ lastCall = NoCall
    /\ phase = <<>>
    /\ calls = 0

SpecSanitize == SanInit /\ [][SanNext]_vars

(***************************************************************************)
(* Properties.                                                             *)
(***************************************************************************)
IsExec(e) == e.kind = "exec"

\* The last call was operation op of a runner of the given kind.
LastWas(kind, op) ==
    /\ lastCall.op = op
    /\ runner[lastCall.runner].kind = kind

\* The runner of the last call.
LastRunner == runner[lastCall.runner]

IsIgniteExec(e) ==
    /\ IsExec(e)
    /\ Len(e.cmd.Command) >= 2
    /\ e.cmd.Command[1] = sIgnite
    /\ e.cmd.Command[2] = sExec

\* C1, as claimed: on a Firecracker runner a Run that is made while the runner
\* is not Ready (before any successful Setup, after a failed Setup, after
\* Teardown) returns an error and issues no ignite exec invocation.
C1_RunRejectedUnlessReady ==
    (LastWas("firecracker", "Run") /\ lastCall.before # "ready")
        => /\ lastCall.err # Nil
           /\ \A k \in 1..Len(trace) : ~IsIgniteExec(trace[k])

\* C1, amended: a Run on a Firecracker runner makes no readiness check: in
\* every phase of the runner it issues exactly one invocation, of the form
\* ignite exec <name> -- <inner>, and returns that invocation's result.
C1_RunIssuesExecInEveryPhase ==
    LastWas("firecracker", "Run")
        => /\ Len(trace) = 1
           /\ IsIgniteExec(trace[1])
           /\ Len(trace[1].cmd.Command) = 5
           /\ trace[1].cmd.Command[3] = LastRunner.name
           /\ trace[1].cmd.Command[4] = sDashDash
           /\ lastCall.err = trace[1].err

\* A Run after Teardown that was issued and accepted.
C1_Witness ==
    /\ LastWas("firecracker", "Run")
    /\ lastCall.before = "torndown"
    /\ Len(trace) = 1
    /\ IsIgniteExec(trace[1])
    /\ lastCall.err = Nil

\* C2: Teardown returns nil on both tiers, in every phase of the runner and
\* whatever the outcomes of the remove invocation and of the deletion of the
\* temp directory.
C2_TeardownReturnsNil ==
    lastCall.op = "Teardown" => lastCall.err = Nil

\* A second Teardown whose remove invocation and deletion both failed.
C2_Witness ==
    /\ LastWas("firecracker", "Teardown")
    /\ lastCall.before = "torndown"
    /\ Len(trace) = 2
    /\ trace[1].err # Nil
    /\ trace[2].err # Nil
    /\ lastCall.err = Nil

\* C3: every Teardown of a Firecracker runner attempts both release steps
\* once and in this order, whatever their outcomes: the invocation
\* ignite rm -f <name>, then the deletion of the temp directory; and when the
\* deletion succeeds the directory is gone, also when the invocation failed.
C3_TeardownAttemptsBothSteps ==
    LastWas("firecracker", "Teardown")
        => /\ Len(trace) = 2
           /\ trace[1].kind = "exec"
           /\ trace[1].cmd.Command = <<sIgnite, sRm, sForce, LastRunner.name>>
           /\ trace[2].kind = "removeall"
           /\ trace[2].path = LastRunner.tmpDir
           /\ (trace[2].err = Nil => LastRunner.tmpDir \notin fsDirs)

\* A Teardown after a Setup whose remove invocation failed and whose deletion
\* of the temp directory was attempted and succeeded.
C3_Witness ==
    /\ LastWas("firecracker", "Teardown")
    /\ LastRunner.tmpDir # <<>>
    /\ Len(trace) = 2
    /\ trace[1].err # Nil
    /\ trace[2].kind = "removeall"
    /\ trace[2].err = Nil
    /\ LastRunner.tmpDir \notin fsDirs

\* The raw command the last Run's spec was formatted to, before it was put
\* into one string.
LastRaw ==
    formatRawOrDockerCommand(lastCall.spec, firecrackerContainerDir, LastRunner.options)

\* The three parts of the inner command of the last Run.
LastEnvPart == StrJoin(quoteEnv(LastRaw.Env), <<" ">>)
LastCdPart == sCd \o LastRaw.Dir \o sAndAnd
LastCommandPart == ShellJoin(LastRaw.Command)

\* The last call was a Firecracker Run of a spec with environment assignments
\* and a working directory.
LastRunHasEnvAndDir ==
    /\ LastWas("firecracker", "Run")
    /\ Len(LastRaw.Env) > 0
    /\ LastRaw.Dir # <<>>

\* C4, as claimed: in the inner command the environment assignments come
\* first, then the cd clause, then the command.
C4_EnvThenCdThenCommand ==
    LastRunHasEnvAndDir
        => LET inner == trace[1].cmd.Command[5]
           IN  /\ HasPrefixAt(inner, 1, LastEnvPart)
               /\ IndexOf(inner, LastEnvPart) < IndexOf(inner, LastCdPart)
               /\ IndexOf(inner, LastCdPart) < IndexOf(inner, LastCommandPart)

\* C4, amended: the inner command is the cd clause first, then the
\* environment assignments, then the command, and nothing else.
C4_CdThenEnvThenCommand ==
    LastRunHasEnvAndDir
        => LET inner == trace[1].cmd.Command[5]
               p2 == Len(LastCdPart) + 1
               p3 == p2 + Len(LastEnvPart) + 1
           IN  /\ HasPrefixAt(inner, 1, LastCdPart)
               /\ HasPrefixAt(inner, p2, LastEnvPart \o <<" ">>)
               /\ HasPrefixAt(inner, p3, LastCommandPart)
               /\ Len(inner) = p3 + Len(LastCommandPart) - 1

\* A Run with two environment assignments and a working directory whose inner
\* command starts with the cd clause.
C4_Witness ==
    /\ LastRunHasEnvAndDir
    /\ Len(lastCall.spec.Env) = 2
    /\ lastCall.spec.Dir # <<>>
    /\ HasPrefixAt(trace[1].cmd.Command[5], 1, sCd)
    /\ IndexOf(trace[1].cmd.Command[5], LastEnvPart) > Len(LastCdPart)

\* The length of the digest part of a reference that ends with one.
DigestPartLen == Len(sha256Marker) + DigestLen

\* The length left for the tag of x when its name has n characters and it
\* ends with a digest (d) or not: -1 when what is left cannot be ":tag".
TagLenLeft(x, n, d) ==
    LET rest == Len(x) - n - (IF d THEN DigestPartLen ELSE 0)
    IN  IF rest = 0 THEN 0 ELSE IF rest >= 2 THEN rest - 1 ELSE -1

\* The ways x has, as a whole, the shape name[:tag][@sha256:digest]:
\* <<n, t, d>> with n the length of the name, t that of the tag (0: none)
\* and d whether a digest ends it.
Shapes(x) ==
    {sh \in {<<n, TagLenLeft(x, n, d), d>> : n \in 1..Len(x), d \in BOOLEAN} :
        LET n == sh[1]
            t == sh[2]
            tagEnd == IF t > 0 THEN n + 1 + t ELSE n
        IN  /\ t >= 0
            /\ \A k \in 1..n : x[k] \in NameChars
            /\ t > 0 => /\ x[n + 1] = ":"
                        /\ \A k \in (n + 2)..tagEnd : x[k] \in TagChars
            /\ sh[3] => /\ HasPrefixAt(x, tagEnd + 1, sha256Marker)
                        /\ \A k \in 1..DigestLen :
                              x[tagEnd + Len(sha256Marker) + k] \in DigestChars}

\* name, or name:tag, of a shape of x.
NameAndTag(x, sh) == SubSeq(x, 1, IF sh[2] > 0 THEN sh[1] + 1 + sh[2] ELSE sh[1])

\* C5: the output of sanitizeImage never contains "@sha256:", whatever the
\* input.
C5_NoDigestMarkerInOutput ==
    sanStep \in {"once", "twice"} => ~Contains(sanitized, sha256Marker)

\* An input that holds the marker without having the shape as a whole, and
\* was rewritten.
C5_Witness ==
    /\ sanStep = "once"
    /\ Contains(image, sha256Marker)
    /\ Shapes(image) = {}
    /\ sanitized # image
    /\ sanitized # <<>>

\* C6: for a reference of the shape name[:tag][@sha256:digest] sanitizeImage
\* returns name:tag when there is a tag and name when there is none; so for
\* the two documented examples.
C6_NameAndTagKept ==
    sanStep \in {"once", "twice"}
        => /\ \A sh \in Shapes(image) : sanitized = NameAndTag(image, sh)
           /\ image = <<"r", "e", "p", "o", "/", "i", "m", "g", ":", "t", "a", "g">> \o ExampleDigest => sanitized = <<"r", "e", "p", "o", "/", "i", "m", "g", ":", "t", "a", "g">>
           /\ image = <<"r", "e", "p", "o", "/", "i", "m", "g">> \o ExampleDigest => sanitized = <<"r", "e", "p", "o", "/", "i", "m", "g">>

\* The first documented example, sanitized.
C6_Witness ==
    /\ sanStep = "once"
    /\ image = <<"r", "e", "p", "o", "/", "i", "m", "g", ":", "t", "a", "g">> \o ExampleDigest
    /\ <<8, 3, TRUE>> \in Shapes(image)
    /\ sanitized = <<"r", "e", "p", "o", "/", "i", "m", "g", ":", "t", "a", "g">>

\* C7: sanitizing twice gives what sanitizing once gives, and a reference
\* with a tag and no digest is returned as it is.
C7_Idempotent ==
    /\ sanStep = "twice" => resanitized = sanitized
    /\ sanStep \in {"once", "twice"}
          => \A sh \in Shapes(image) : (sh[2] > 0 /\ ~sh[3]) => sanitized = image

\* An input that the first pass rewrote and the second left alone.
C7_Witness ==
    /\ sanStep = "twice"
    /\ sanitized # image
    /\ sanitized # <<>>
    /\ resanitized = sanitized

\* No character of x can start a name.
NoNameChar(x) == \A k \in 1..Len(x) : x[k] \notin NameChars

\* C8, as claimed: a reference that as a whole does not have the shape
\* name[:tag][@sha256:digest] is returned unchanged.
C8_UnchangedUnlessWholeShape ==
    (sanStep \in {"once", "twice"} /\ Shapes(image) = {}) => sanitized = image

\* C8, amended: sanitizeImage returns its input unchanged exactly when the
\* pattern matches nowhere in it (it holds no character other than ':' and
\* '@') or it is, as a whole, a name or name:tag without a digest; every
\* other input is rewritten to the name[:tag] of the leftmost match.
C8_UnchangedIffNoMatchOrClean ==
    sanStep \in {"once", "twice"}
        => ((sanitized = image)
              <=> (NoNameChar(image) \/ \E sh \in Shapes(image) : ~sh[3]))

\* A reference of ':' and '@' only, returned as it is.
C8_Witness ==
    /\ sanStep = "once"
    /\ Len(image) >= 2
    /\ NoNameChar(image)
    /\ sanitized = image

\* The start invocation of the last call, a Firecracker Setup, when it
\* issued one.
StartEvents == SelectSeq(trace, LAMBDA e : e.kind = "exec" /\ e.cmd.Key = "setup.firecracker.start")

LastStarted == LastWas("firecracker", "Setup") /\ Len(StartEvents) = 1

StartArgv == StartEvents[1].cmd.Command

\* The copy-files pairs of the last Setup: the startup script when one is
\* configured, the daemon config when a mirror is.
LastScriptPair ==
    LET p == LastRunner.options.FirecrackerOptions.VMStartupScriptPath
    IN  p \o <<":">> \o p

LastDaemonPair ==
    LastRunner.tmpDir \o <<"/">> \o dockerDaemonConfigFilename \o <<":">> \o daemonJSONPath

LastPairs ==
    (IF LastRunner.options.FirecrackerOptions.VMStartupScriptPath # <<>>
     THEN {LastScriptPair} ELSE {})
    \cup (IF LastRunner.options.FirecrackerOptions.DockerRegistryMirrorAddress # <<>>
          THEN {LastDaemonPair} ELSE {})

\* C9: the copy-files pairs of the start invocation stand in ascending
\* string order, whichever of them was collected first.
C9_CopyFilesSorted ==
    LastStarted
        => LET line == StrJoin(StartArgv, <<" ">>)
           IN  \A p \in LastPairs, q \in LastPairs :
                  /\ Contains(line, p)
                  /\ StrLess(p, q) => IndexOf(line, p) < IndexOf(line, q)

\* A start invocation in which the daemon config, collected second, stands
\* before the startup script.
C9_Witness ==
    /\ LastStarted
    /\ Cardinality(LastPairs) = 2
    /\ StrLess(LastDaemonPair, LastScriptPair)
    /\ IndexOf(StrJoin(StartArgv, <<" ">>), LastDaemonPair)
         < IndexOf(StrJoin(StartArgv, <<" ">>), LastScriptPair)

\* C10: the start invocation has exactly this argument order for every
\* options value: ignite run --runtime docker --network-plugin cni, then
\* --cpus <n> --memory <mem> --size <disk>, then the copy-files flags if any,
\* then --volumes <device>:<mount point>, --ssh, --name <name>,
\* --kernel-image <kernel> (the kernel image reference, passed through
\* sanitizeImage) and last the sanitized base image.
C10_StartArgvOrder ==
    LastStarted
        => LET o == LastRunner.options
               n == Len(StartArgv)
           IN  /\ n >= 20
               /\ SubSeq(StartArgv, 1, 6) =
                     <<sIgnite, sRun, sRuntime, sDocker, sNetworkPlugin, sCni>>
               /\ StartArgv[7] = sCpus
               /\ (o.ResourceOptions.NumCPUs = 4 => StartArgv[8] = <<"4">>)
               /\ (o.ResourceOptions.NumCPUs = 12 => StartArgv[8] = <<"1", "2">>)
               /\ SubSeq(StartArgv, 9, 12) =
                     <<sMemory, o.ResourceOptions.Memory,
                       sSize, o.ResourceOptions.DiskSpace>>
               /\ (n = 20 <=> LastPairs = {})
               /\ (n > 20 => StartArgv[13] = sCopyFiles)
               /\ \A k \in 13..(n - 8) : StartArgv[k] # sVolumes
               /\ SubSeq(StartArgv, n - 7, n) =
                     <<sVolumes,
                       LastRunner.workspaceDevice \o <<":">> \o firecrackerContainerDir,
                       sSsh, sName, LastRunner.name, sKernelImage,
                       sanitizeImage(o.FirecrackerOptions.KernelImage),
                       sanitizeImage(o.FirecrackerOptions.Image)>>

\* A start invocation with copy-files flags, 12 CPUs and a base image that
\* carries a digest.
C10_Witness ==
    /\ LastStarted
    /\ Len(StartArgv) > 20
    /\ StartArgv[13] = sCopyFiles
    /\ LastRunner.options.ResourceOptions.NumCPUs = 12
    /\ Contains(LastRunner.options.FirecrackerOptions.Image, sha256Marker)
    /\ ~Contains(StartArgv[Len(StartArgv)], sha256Marker)

\* C11: NewRunner gives the bare-tier runner exactly when Firecracker is not
\* enabled, and on it Setup and Teardown are no-ops in every state and any
\* call order: they return nil and issue no invocation, and (the runner
\* being the only one of the behaviour) no file or directory is ever made or
\* deleted and the runner's fields stay as NewRunner set them.
C11_BareSetupTeardownNoOps ==
    \A r \in DOMAIN runner :
        /\ (runner[r].kind = "docker") <=> ~runner[r].options.FirecrackerOptions.Enabled
        /\ runner[r].kind = "docker"
              => /\ runner[r].dir = workspaceDir
                 /\ runner[r].tmpDir = <<>>
                 /\ runner[r].name = <<>>
                 /\ fsDirs = {osTempDir}
                 /\ fsFiles = {}
                 /\ nextTmp = 1
                 /\ (lastCall.op \in {"Setup", "Teardown"}
                       => (lastCall.err = Nil /\ trace = <<>>))

\* A Teardown on the bare tier after a Setup and a Run, with a cancelled
\* context.
C11_Witness ==
    /\ LastWas("docker", "Teardown")
    /\ lastCall.before = "ready"
    /\ lastCall.ctx = "done"
    /\ calls = 3
    /\ trace = <<>>
    /\ fsDirs = {osTempDir}

\* The flags and words of a container invocation.
ContainerWords == {sDocker, <<"-", "-", "r", "m">>, <<"-", "e">>, <<"-", "v">>, <<"-", "w">>}

\* The directory a command of the last call's runner runs in when its spec
\* names the directory d.
DirUnderRunner(d) ==
    IF d = <<>> THEN LastRunner.dir ELSE LastRunner.dir \o <<"/">> \o d

\* C12: on the bare tier a Run of a spec without an image that gives command
\* tokens invokes the execution primitive exactly once, with exactly the
\* spec's tokens (exactly echo, hi for the spec of echo hi), in the spec's
\* directory under the runner's, the spec's environment handed to the
\* process, and no container flag in the invocation.
C12_BareRunInvokesTokens ==
    (LastWas("docker", "Run") /\ lastCall.spec.Image = <<>>
                              /\ lastCall.spec.ScriptPath = <<>>)
        => /\ Len(trace) = 1
           /\ IsExec(trace[1])
           /\ trace[1].cmd.Command = lastCall.spec.Command
           /\ (lastCall.spec.Command = <<<<"e", "c", "h", "o">>, <<"h", "i">>>>
                 => trace[1].cmd.Command = <<<<"e", "c", "h", "o">>, <<"h", "i">>>>)
           /\ trace[1].cmd.Dir = DirUnderRunner(lastCall.spec.Dir)
           /\ trace[1].cmd.Env = lastCall.spec.Env
           /\ \A k \in 1..Len(trace[1].cmd.Command) :
                 trace[1].cmd.Command[k] \notin ContainerWords

\* A bare-tier Run of echo hi in a directory of its own with environment
\* assignments.
C12_Witness ==
    /\ LastWas("docker", "Run")
    /\ lastCall.spec.Image = <<>>
    /\ lastCall.spec.Command = <<<<"e", "c", "h", "o">>, <<"h", "i">>>>
    /\ lastCall.spec.Dir = <<"s", "u", "b">>
    /\ Len(lastCall.spec.Env) = 2
    /\ Len(trace) = 1
    /\ trace[1].cmd.Command = <<<<"e", "c", "h", "o">>, <<"h", "i">>>>
    /\ trace[1].cmd.Dir = <<"/", "w", "s", "/", "s", "u", "b">>

\* C13: Run on both tiers returns the result of its one invocation as it is:
\* nil exactly when the invocation succeeded, and otherwise the very error of
\* the invocation, with nothing wrapped around it.
C13_RunReturnsResultVerbatim ==
    lastCall.op = "Run"
        => /\ Len(trace) = 1
           /\ IsExec(trace[1])
           /\ (lastCall.err = Nil <=> trace[1].err = Nil)
           /\ (trace[1].err # Nil => lastCall.err = trace[1].err)

\* A bare-tier Run whose invocation ended with an exit status.
C13_Witness ==
    /\ LastWas("docker", "Run")
    /\ Len(trace) = 1
    /\ trace[1].err = <<"exit status 1">>
    /\ lastCall.err = <<"exit status 1">>

\* The daemon config file of the last call's runner.
LastDaemonFile == LastRunner.tmpDir \o <<"/">> \o dockerDaemonConfigFilename

LastMirror == LastRunner.options.FirecrackerOptions.DockerRegistryMirrorAddress

\* The destination of the daemon config in a copy-files pair.
DaemonPairEnd == <<":">> \o <<"/", "e", "t", "c", "/", "d", "o", "c", "k", "e", "r", "/", "d", "a", "e", "m", "o", "n", ".", "j", "s", "o", "n">>

\* C14: a Firecracker Setup generates a daemon config file only when a mirror
\* address is configured, and then as its first step after making the temp
\* directory; whenever the start invocation is issued, with a mirror the file
\* holds exactly {"registry-mirrors":["<address>"]} and the invocation has the
\* pair <file>:/etc/docker/daemon.json, and without a mirror there is no file
\* and no pair with that destination.
C14_DaemonConfigIffMirror ==
    LastWas("firecracker", "Setup")
        => /\ (LastMirror = <<>>
                 => /\ \A k \in 1..Len(trace) :
                          trace[k].kind \notin {"create", "write", "close"}
                    /\ fsFiles = {}
                    /\ (LastStarted
                          => ~Contains(StrJoin(StartArgv, <<" ">>), DaemonPairEnd)))
           /\ ((LastMirror # <<>> /\ trace[1].err = Nil)
                 => /\ Len(trace) >= 2
                    /\ trace[2].kind = "create"
                    /\ trace[2].path = LastDaemonFile)
           /\ ((LastMirror # <<>> /\ LastStarted)
                 => /\ {f \in fsFiles : f[1] = LastDaemonFile}
                         = {<<LastDaemonFile,
                              <<"{", "\"", "r", "e", "g", "i", "s", "t", "r", "y", "-", "m", "i", "r", "r", "o", "r", "s", "\"", ":", "[", "\"">> \o LastMirror \o <<"\"", "]", "}">>>>}
                    /\ Contains(StrJoin(StartArgv, <<" ">>),
                                LastDaemonFile \o DaemonPairEnd))

\* A Setup with the mirror http://m that wrote the file and started the
\* virtual machine.
C14_Witness ==
    /\ LastStarted
    /\ LastMirror = <<"h", "t", "t", "p", ":", "/", "/", "m">>
    /\ <<LastDaemonFile, <<"{", "\"", "r", "e", "g", "i", "s", "t", "r", "y", "-", "m", "i", "r", "r", "o", "r", "s", "\"", ":", "[", "\"", "h", "t", "t", "p", ":", "/", "/", "m", "\"", "]", "}">>>> \in fsFiles
    /\ Contains(StrJoin(StartArgv, <<" ">>), LastDaemonFile \o DaemonPairEnd)
    /\ lastCall.err = Nil

\* An invocation ignite <verb> ...
IsIgnite(e, verb) ==
    /\ IsExec(e)
    /\ Len(e.cmd.Command) >= 2
    /\ e.cmd.Command[1] = sIgnite
    /\ e.cmd.Command[2] = verb

\* The start invocation of the last call failed.
LastStartFailed == LastStarted /\ StartEvents[1].err # Nil

\* C15: when the start invocation fails, Setup returns the start failure
\* wrapped in "failed to start firecracker vm", the start invocation is its
\* last step (no startup script is run), and it cleans nothing up: it issues
\* no ignite rm, deletes nothing, and the temp directory it made is still
\* there.
C15_FailedStartNoCleanup ==
    LastStartFailed
        => /\ lastCall.err = <<"failed to start firecracker vm">> \o StartEvents[1].err
           /\ trace[Len(trace)] = StartEvents[1]
           /\ \A k \in 1..Len(trace) :
                 /\ ~IsIgnite(trace[k], sExec)
                 /\ ~IsIgnite(trace[k], sRm)
                 /\ trace[k].kind # "removeall"
           /\ LastRunner.tmpDir # <<>>
           /\ LastRunner.tmpDir \in fsDirs

\* A Setup with a startup script and a mirror whose start invocation ended
\* with an exit status.
C15_Witness ==
    /\ LastStartFailed
    /\ StartEvents[1].err = <<"exit status 1">>
    /\ LastRunner.options.FirecrackerOptions.VMStartupScriptPath # <<>>
    /\ LastMirror # <<>>
    /\ lastCall.err = <<"failed to start firecracker vm", "exit status 1">>
    /\ LastDaemonFile \in {f[1] : f \in fsFiles}
    /\ LastRunner.tmpDir \in fsDirs

\* The ignite exec invocations of the last call.
ExecEvents == SelectSeq(trace, LAMBDA e : IsIgnite(e, sExec))

LastScriptPath == LastRunner.options.FirecrackerOptions.VMStartupScriptPath

\* C16: a Setup issues the startup-script invocation
\* ignite exec <name> -- <script path> exactly when a script path is
\* configured and the start invocation has succeeded, once, and right after
\* the start invocation; when it fails Setup returns its error wrapped in
\* "failed to run startup script", and Setup issues no ignite rm and deletes
\* nothing.
C16_ScriptAfterSuccessfulStart ==
    LastWas("firecracker", "Setup")
        => /\ Len(ExecEvents) <= 1
           /\ (Len(ExecEvents) = 1
                 <=> (LastScriptPath # <<>> /\ LastStarted /\ ~LastStartFailed))
           /\ (Len(ExecEvents) = 1
                 => /\ ExecEvents[1].cmd.Command =
                          <<sIgnite, sExec, LastRunner.name, sDashDash, LastScriptPath>>
                    /\ Len(trace) >= 2
                    /\ trace[Len(trace)] = ExecEvents[1]
                    /\ trace[Len(trace) - 1] = StartEvents[1]
                    /\ (ExecEvents[1].err = Nil => lastCall.err = Nil)
                    /\ (ExecEvents[1].err # Nil
                          => lastCall.err = <<"failed to run startup script">>
                                              \o ExecEvents[1].err))
           /\ \A k \in 1..Len(trace) :
                 ~IsIgnite(trace[k], sRm) /\ trace[k].kind # "removeall"

\* A Setup whose startup script ended with an exit status after the virtual
\* machine was started.
C16_Witness ==
    /\ LastStarted
    /\ StartEvents[1].err = Nil
    /\ Len(ExecEvents) = 1
    /\ ExecEvents[1].err = <<"exit status 2">>
    /\ lastCall.err = <<"failed to run startup script", "exit status 2">>
    /\ LastRunner.tmpDir \in fsDirs

\* C17: every Firecracker Run issues one invocation of exactly five
\* arguments, ignite exec <name> -- <inner>, with the runner's name; the fifth
\* holds the whole inner command: the cd clause at its start, every
\* environment assignment and every token of the command in their quoted
\* form (ls 'a b' for the tokens ls and "a b"); nothing is handed over beside
\* the argument list.
C17_InnerCommandIsOneArgument ==
    LastWas("firecracker", "Run")
        => /\ Len(trace) = 1
           /\ IsExec(trace[1])
           /\ Len(trace[1].cmd.Command) = 5
           /\ SubSeq(trace[1].cmd.Command, 1, 4) =
                 <<sIgnite, sExec, LastRunner.name, sDashDash>>
           /\ trace[1].cmd.Dir = <<>>
           /\ trace[1].cmd.Env = <<>>
           /\ LET inner == trace[1].cmd.Command[5]
              IN  /\ \A k \in 1..Len(LastRaw.Command) :
                        Contains(inner, ShellQuoteWord(LastRaw.Command[k]))
                  /\ \A k \in 1..Len(LastRaw.Env) :
                        Contains(inner, ShellQuoteWord(LastRaw.Env[k]))
                  /\ (LastRaw.Dir # <<>> => HasPrefixAt(inner, 1, LastCdPart))
                  /\ ((lastCall.spec.Image = <<>>
                          /\ lastCall.spec.Command = <<<<"l", "s">>, <<"a", " ", "b">>>>)
                        => Contains(inner, <<"l", "s", " ", "'", "a", " ", "b", "'">>))

\* A Run of ls "a b" with an assignment that holds a space.
C17_Witness ==
    /\ LastWas("firecracker", "Run")
    /\ lastCall.spec.Image = <<>>
    /\ lastCall.spec.Command = <<<<"l", "s">>, <<"a", " ", "b">>>>
    /\ Len(lastCall.spec.Env) = 2
    /\ Len(trace[1].cmd.Command) = 5
    /\ Contains(trace[1].cmd.Command[5], <<"'", "A", "=", "b", " ", "c", "'", " ", "D", "=", "\\", "$", "1", " ", "l", "s", " ", "'", "a", " ", "b", "'">>)

\* The other of two runners.
OtherRunner(r) == 3 - r

\* What is under the temp directory of runner r.
OwnDirs(r) == {d \in fsDirs : runner[r].tmpDir # <<>> /\ Under(d, runner[r].tmpDir)}
OwnFiles(r) == {f \in fsFiles : runner[r].tmpDir # <<>> /\ Under(f[1], runner[r].tmpDir)}

\* With two runners: the steps of the last call name only the VM of its own
\* runner and touch only paths under its own temp directory, and the temp
\* directories of the two runners are apart.
RunnersApart ==
    Len(runner) = 2
        => /\ (lastCall.op # "none"
                 => \A k \in 1..Len(trace) :
                       /\ \A j \in 1..Len(trace[k].cmd.Command) :
                             trace[k].cmd.Command[j]
                                 # runner[OtherRunner(lastCall.runner)].name
                       /\ (IsExec(trace[k])
                             => \E j \in 1..Len(trace[k].cmd.Command) :
                                   trace[k].cmd.Command[j] = LastRunner.name)
                       /\ (trace[k].path # <<>>
                             => Under(trace[k].path, LastRunner.tmpDir)))
           /\ ((runner[1].tmpDir # <<>> /\ runner[2].tmpDir # <<>>)
                 => /\ ~Under(runner[1].tmpDir, runner[2].tmpDir)
                    /\ ~Under(runner[2].tmpDir, runner[1].tmpDir))

\* With two runners: a call of one runner leaves the fields and the phase of
\* the other as they are, and what is under the other's temp directory
\* stays.
OtherRunnerUntouched ==
    (Len(runner) = 2 /\ calls' = calls + 1)
        => LET o == OtherRunner(lastCall'.runner)
           IN  /\ runner'[o] = runner[o]
               /\ phase'[o] = phase[o]
               /\ OwnDirs(o) \subseteq fsDirs'
               /\ OwnFiles(o) \subseteq fsFiles'

\* C18: two Firecracker runners with executor names of their own, their
\* Setup/Run/Teardown calls interleaved in any order, share no state: every
\* invocation of a runner names its own VM and never the other's, each runner
\* gets a temp directory of its own, and no call of one runner changes the
\* other's fields or deletes anything under the other's temp directory.
C18_RunnersShareNothing == []RunnersApart /\ [][OtherRunnerUntouched]_vars

\* The first runner torn down, its temp directory gone, while the second
\* still has its own with its daemon config in it.
C18_Witness ==
    /\ Len(runner) = 2
    /\ lastCall.op = "Teardown"
    /\ lastCall.runner = 1
    /\ runner[1].tmpDir # <<>>
    /\ runner[1].tmpDir \notin fsDirs
    /\ runner[2].tmpDir # <<>>
    /\ runner[2].tmpDir \in fsDirs
    /\ OwnFiles(2) # {}

\* The error err carries the cancellation: the chain ends with it.
CarriesCancellation(err) ==
    /\ err # Nil
    /\ <<err[Len(err)]>> = Canceled

\* C19: on the Firecracker tier, an invocation of Setup or Run that is made
\* with a cancelled context, or whose context is cancelled while it runs, is
\* aborted: it ends with the cancellation, it is the last step of the call
\* (after a cancelled start no startup script is run), and the call returns
\* an error that carries the cancellation.  No Setup or Run that is given a
\* context already cancelled returns nil.
C19_CancellationAbortsAndPropagates ==
    (lastCall.op \in {"Setup", "Run"} /\ LastRunner.kind = "firecracker")
        => /\ \A k \in 1..Len(trace) :
                 IsExec(trace[k])
                    => /\ (lastCall.ctx = "done" => trace[k].err = Canceled)
                       /\ (trace[k].err = Canceled
                             => /\ k = Len(trace)
                                /\ CarriesCancellation(lastCall.err))
           /\ (lastCall.ctx = "done" => lastCall.err # Nil)

\* A Setup given a cancelled context, with a mirror and a startup script: the
\* daemon config is written, the start invocation is aborted and no startup
\* script is run.
C19_Witness ==
    /\ LastStarted
    /\ lastCall.ctx = "done"
    /\ LastMirror # <<>>
    /\ LastScriptPath # <<>>
    /\ StartEvents[1].err = Canceled
    /\ Len(ExecEvents) = 0
    /\ lastCall.err = <<"failed to start firecracker vm">> \o Canceled

\* C20: a Teardown that is given a context already cancelled still carries
\* out both cleanup steps: the removal ignite rm -f <name> is not aborted by
\* the context, and the temp directory is deleted afterwards, so that the
\* cancelled context by itself leaves neither the VM nor the temp directory
\* behind.
C20_CancelledTeardownCleansUp ==
    (LastWas("firecracker", "Teardown") /\ lastCall.ctx = "done"
        /\ LastRunner.tmpDir # <<>>)
        => /\ Len(trace) = 2
           /\ IsIgnite(trace[1], sRm)
           /\ trace[1].err # Canceled
           /\ trace[2].kind = "removeall"
           /\ (trace[2].err = Nil => LastRunner.tmpDir \notin fsDirs)

\* A step of the local preparation of a Setup: making the temp directory, or
\* creating, writing or closing the daemon config file.
IsLocalStep(e) == e.kind \in {"mkdirtemp", "create", "write", "close"}

\* A local step of the last call failed.
LastLocalStepFailed ==
    \E k \in 1..Len(trace) : IsLocalStep(trace[k]) /\ trace[k].err # Nil

\* C21: a Firecracker Setup does its local preparation before any
\* invocation: every local step comes before every invocation, and when a
\* local step fails (making the temp directory, or with a mirror creating,
\* writing or closing the daemon config file) Setup returns an error and
\* issues no invocation at all.
C21_LocalFailureNoInvocation ==
    LastWas("firecracker", "Setup")
        => /\ \A i, j \in 1..Len(trace) :
                 (IsLocalStep(trace[i]) /\ IsExec(trace[j])) => i < j
           /\ LastLocalStepFailed
                 => /\ lastCall.err # Nil
                    /\ \A k \in 1..Len(trace) : ~IsExec(trace[k])

\* A Setup with a mirror whose write of the daemon config failed: it ended
\* there, with the error, before any invocation.
C21_Witness ==
    /\ LastWas("firecracker", "Setup")
    /\ LastMirror # <<>>
    /\ Len(trace) = 4
    /\ trace[3].kind = "write"
    /\ trace[3].err = <<"write failed">>
    /\ lastCall.err # Nil
    /\ \A k \in 1..Len(trace) : ~IsExec(trace[k])

\* The errors of the steps of the last call that failed.
LastStepErrors == {trace[k].err : k \in {i \in 1..Len(trace) : trace[i].err # Nil}}

\* C22: every error a Firecracker Setup returns is the error of the step that
\* failed wrapped in a message of Setup's own naming that step, for the temp
\* directory, the creation, the write and the close of the daemon config,
\* the start and the startup script alike: what the caller gets is never
\* the bare error of the step.
C22_SetupErrorsWrapped ==
    (LastWas("firecracker", "Setup") /\ lastCall.err # Nil)
        => /\ lastCall.err \notin LastStepErrors
           /\ Len(lastCall.err) >= 2
           /\ <<lastCall.err[1]>> \notin LastStepErrors
           /\ Tail(lastCall.err) \in LastStepErrors

\* Where the copy-files flag stands in the start invocation.
CopyFilesAt == {k \in 1..Len(StartArgv) : StartArgv[k] = sCopyFiles}

\* The value the copy-files flag is to carry: the pairs of the last Setup in
\* ascending order, joined by commas.
LastCopyFilesValue ==
    IF LastPairs = {LastScriptPair, LastDaemonPair} /\ LastScriptPair # LastDaemonPair
    THEN IF StrLess(LastScriptPair, LastDaemonPair)
         THEN LastScriptPair \o <<",">> \o LastDaemonPair
         ELSE LastDaemonPair \o <<",">> \o LastScriptPair
    ELSE IF LastPairs = {LastScriptPair} THEN LastScriptPair
    ELSE LastDaemonPair

\* C23: the start invocation has a copy-files flag exactly when there is a
\* file to copy (a startup script is configured or a daemon config was
\* generated); it then has the flag once, followed by one value: the pairs in
\* ascending order joined by commas, the startup script copied to its own
\* path and the daemon config to /etc/docker/daemon.json.
C23_OneCopyFilesFlag ==
    LastStarted
        => /\ (CopyFilesAt = {}) <=> (LastPairs = {})
           /\ Cardinality(CopyFilesAt) <= 1
           /\ \A k \in CopyFilesAt :
                 /\ k < Len(StartArgv)
                 /\ StartArgv[k + 1] = LastCopyFilesValue
                 /\ StartArgv[k + 2] = sVolumes

\* A started Setup with a startup script and a mirror, where the daemon
\* config pair sorts before the script pair: one flag with both pairs.
C23_Witness ==
    /\ LastStarted
    /\ LastPairs = {LastScriptPair, LastDaemonPair}
    /\ StrLess(LastDaemonPair, LastScriptPair)
    /\ \E k \in CopyFilesAt :
          StartArgv[k + 1] = LastDaemonPair \o <<",">> \o LastScriptPair
    /\ Cardinality(CopyFilesAt) = 1

\* Where the kernel-image flag stands in the start invocation.
KernelImageAt == {k \in 1..Len(StartArgv) : StartArgv[k] = sKernelImage}

LastKernelImage == LastRunner.options.FirecrackerOptions.KernelImage

\* What comes before the digest marker in an image reference.
BeforeDigest(x) == SubSeq(x, 1, IndexOf(x, sha256Marker) - 1)

LastInvocations == SelectSeq(trace, IsExec)

\* C25: nothing is retried: a Firecracker Setup issues at most one start
\* invocation and at most one startup-script invocation and no other; a Run,
\* on either tier, issues exactly one invocation; a Firecracker Teardown
\* issues exactly one invocation, the removal; whatever the outcomes of the
\* invocations.
C25_NoRetry ==
    /\ LastWas("firecracker", "Setup")
          => /\ Len(StartEvents) <= 1
             /\ Len(ExecEvents) <= 1
             /\ Len(LastInvocations) = Len(StartEvents) + Len(ExecEvents)
    /\ lastCall.op = "Run"
          => /\ Len(trace) = 1
             /\ IsExec(trace[1])
             /\ LastRunner.kind = "firecracker" => IsIgnite(trace[1], sExec)
    /\ LastWas("firecracker", "Teardown")
          => /\ Len(LastInvocations) = 1
             /\ IsIgnite(LastInvocations[1], sRm)

\* A Run on a runner that was set up whose invocation failed: it was issued
\* once.
C25_Witness ==
    /\ LastWas("firecracker", "Run")
    /\ lastCall.before = "ready"
    /\ Len(trace) = 1
    /\ trace[1].err = <<"exit status 1">>
    /\ lastCall.err = <<"exit status 1">>

\* The last call was a Firecracker Teardown that follows a Setup (with Runs
\* in between at most) which had made its temp directory: the Setup
\* succeeded, or failed at the daemon config, the start or the startup
\* script.
LastTeardownFollowsSetup ==
    /\ LastWas("firecracker", "Teardown")
    /\ lastCall.before \in {"ready", "failed"}
    /\ LastRunner.tmpDir # <<>>

\* The name the start invocation of the last call's runner carries after
\* --name.
LastStartName ==
    LET argv == startCommand(LastRunner.name, LastRunner.workspaceDevice, <<>>,
                             LastRunner.options).Command
    IN  argv[(CHOOSE k \in 1..Len(argv) : argv[k] = sName) + 1]

\* C26: a Teardown that follows a Setup releases what the Setup acquired,
\* whether the Setup succeeded or failed after making its temp directory:
\* it issues ignite rm -f <name> with the name of the start invocation, the
\* executor identity, and then deletes the temp directory the Setup made;
\* when the deletion succeeds the directory and any daemon config file in it
\* are gone.
C26_TeardownReleasesSetup ==
    LastTeardownFollowsSetup
        => /\ Len(trace) = 2
           /\ IsExec(trace[1])
           /\ trace[1].cmd.Command = <<sIgnite, sRm, sForce, LastStartName>>
           /\ LastStartName = LastRunner.options.ExecutorName
           /\ trace[2].kind = "removeall"
           /\ trace[2].path = LastRunner.tmpDir
           /\ nextTmp > 1
           /\ LastRunner.tmpDir = MkdirTempName(nextTmp - 1)
           /\ trace[2].err = Nil
                 => /\ LastRunner.tmpDir \notin fsDirs
                    /\ \A f \in fsFiles : ~Under(f[1], LastRunner.tmpDir)

\* A Teardown after a failed Setup of a runner with a mirror: the removal was
\* issued for the executor identity and the temp directory is gone, the
\* daemon config file with it.
C26_Witness ==
    /\ LastTeardownFollowsSetup
    /\ lastCall.before = "failed"
    /\ LastMirror # <<>>
    /\ trace[1].cmd.Command = <<sIgnite, sRm, sForce, vmName>>
    /\ trace[2].err = Nil
    /\ LastRunner.tmpDir \notin fsDirs
    /\ LastDaemonFile \notin {f[1] : f \in fsFiles}

\* The inner command string of the last call, a Firecracker Run.
LastInner == trace[1].cmd.Command[5]

\* The words of a list, each shell-quoted, separated by one space.
QuotedWords(words) ==
    StrJoin([k \in 1..Len(words) |-> ShellQuoteWord(words[k])], <<" ">>)

\* C27: the inner command string of a Firecracker Run has a cd <dir> &&
\* clause exactly when the formatted command has a working directory, and
\* every piece put into the string is shell-quoted: the working directory
\* after cd, each environment assignment and each command token, so that a
\* piece that holds spaces or shell metacharacters stays one word.
C27_InnerCommandPiecesQuoted ==
    LastWas("firecracker", "Run")
        => /\ HasPrefixAt(LastInner, 1, sCd) <=> (LastRaw.Dir # <<>>)
           /\ LastInner =
                 (IF LastRaw.Dir # <<>>
                  THEN sCd \o ShellQuoteWord(LastRaw.Dir) \o sAndAnd ELSE <<>>)
                 \o (IF Len(LastRaw.Env) > 0
                     THEN QuotedWords(LastRaw.Env) \o <<" ">> ELSE <<>>)
                 \o QuotedWords(LastRaw.Command)

\* The temp directories that exist.
TempDirs == fsDirs \ {osTempDir}

\* The last call was a Firecracker Teardown whose deletion succeeded, and
\* every call before it was a Setup that made its temp directory: each such
\* Setup takes one name, so there were nextTmp - 1 of them among the
\* calls - 1 earlier calls.
LastTeardownAfterSetupsOnly ==
    /\ LastWas("firecracker", "Teardown")
    /\ calls = nextTmp
    /\ Len(trace) = 2
    /\ trace[2].kind = "removeall"
    /\ trace[2].err = Nil

ConfigurationKept ==
    /\ DOMAIN runner' = DOMAIN runner
    /\ \A r \in DOMAIN runner :
          /\ runner'[r].kind = runner[r].kind
          /\ runner'[r].name = runner[r].name
          /\ runner'[r].workspaceDevice = runner[r].workspaceDevice
          /\ runner'[r].dir = runner[r].dir
          /\ runner'[r].options = runner[r].options
          /\ runner'[r].tmpDir # runner[r].tmpDir
                => /\ lastCall'.op = "Setup"
                   /\ lastCall'.runner = r
                   /\ runner[r].kind = "firecracker"
    /\ lastCall'.op = "Run"
          => /\ runner' = runner
             /\ fsDirs' = fsDirs
             /\ fsFiles' = fsFiles
             /\ nextTmp' = nextTmp

\* C29: the configuration of a runner is fixed once it is constructed: over
\* every sequence of Setup, Run and Teardown calls the name, the workspace
\* device and the Options never change, the temp directory path is the only
\* field written and only Setup writes it, and a Run changes nothing of the
\* runner and neither makes, changes nor deletes the temp directory or the
\* daemon config file.
C29_ConfigurationFixed == [][ConfigurationKept]_vars

\* A Run on a runner that is set up with a mirror: the temp directory and the
\* daemon config file of the Setup are in place and the runner has the name
\* and Options it was constructed with.
C29_Witness ==
    /\ LastWas("firecracker", "Run")
    /\ lastCall.before = "ready"
    /\ LastMirror # <<>>
    /\ LastRunner.tmpDir \in fsDirs
    /\ LastDaemonFile \in {f[1] : f \in fsFiles}
    /\ LastRunner = [NewRunner(workspaceDir, LastRunner.options)
                        EXCEPT !.tmpDir = MkdirTempName(1)]
    /\ LastRunner.options \in LifecycleOptions

====
